---- MODULE Spec2Model ----
(***************************************************************************)
(* Scraper abstraction, result schema, result cache and parser registry of *)
(* scripts/scrapers (schema.py, cache.py, registry.py, base.py).           *)
(*                                                                         *)
(* Conventions.  A Python str that takes part in string arithmetic (the    *)
(* cache key, a url) is a sequence of one-character strings.  A dict is a  *)
(* function whose DOMAIN is its key set, a list is a sequence, and an      *)
(* Optional value is <<>> (None) or <<x>>.  Time is counted in hours.      *)
(***************************************************************************)
EXTENDS Integers, Sequences, FiniteSets, TLC

VARIABLES
    files,          \* cache directory: cache key -> file content
    now,            \* the wall clock, datetime.now(), in hours
    last,           \* the most recent cache operation and what it returned
    arg,            \* input drawn by Init for the pure-function specifications
    out,            \* what the operation under check returned
    parser_cache,   \* registry._parser_cache: source id -> parser instance
    constructed,    \* how many parsers each source id has had constructed
    returned,       \* the instances get_parser has returned, by source id
    nav,            \* the running navigate_with_retry call
    task,           \* the running BaseScraper.scrape call
    prev            \* the scrape call that ended before the running one

cacheVars == <<files, now, last>>

pureVars == <<arg, out>>

registryVars == <<parser_cache, constructed, returned>>

scrapeVars == <<nav, task, prev>>

vars == <<cacheVars, pureVars, registryVars, scrapeVars>>

(***************************************************************************)
(* Bounds of the model                                                     *)
(***************************************************************************)
MaxTime == 25

(***************************************************************************)
(* Python helpers                                                          *)
(***************************************************************************)
None == <<>>

Some(x) == <<x>>

EmptyDict == [x \in {} |-> x]

\* dict.get(k, default)
Get(d, k, dflt) == IF k \in DOMAIN d THEN d[k] ELSE dflt

\* truth value of a dict or a list
Truthy(d) == DOMAIN d # {}

\* code points of the characters the model's strings are made of
Ord(c) ==
    CASE c = "=" -> 61
      [] c = "a" -> 97
      [] c = "b" -> 98
      [] c = "k" -> 107
      [] c = "u" -> 117
      [] c = "v" -> 118
      [] c = "|" -> 124

\* str < str
RECURSIVE StrLess(_, _)
StrLess(a, b) ==
    IF a = <<>> THEN b # <<>>
    ELSE IF b = <<>> THEN FALSE
    ELSE IF Ord(a[1]) # Ord(b[1]) THEN Ord(a[1]) < Ord(b[1])
    ELSE StrLess(Tail(a), Tail(b))

\* sep.join(parts)
RECURSIVE Join(_, _)
Join(parts, sep) ==
    IF parts = <<>> THEN <<>>
    ELSE IF Len(parts) = 1 THEN parts[1]
    ELSE parts[1] \o <<sep>> \o Join(Tail(parts), sep)

\* sorted(kwargs.items()): kwargs is the sequence of (key, value) pairs in the
\* order the caller passed them, its keys distinct
RECURSIVE InsertItem(_, _)
InsertItem(item, s) ==
    IF s = <<>> THEN <<item>>
    ELSE IF StrLess(item[1], s[1][1]) THEN <<item>> \o s
    ELSE <<s[1]>> \o InsertItem(item, Tail(s))

RECURSIVE SortedItems(_)
SortedItems(kwargs) ==
    IF kwargs = <<>> THEN <<>>
    ELSE InsertItem(kwargs[1], SortedItems(Tail(kwargs)))

(***************************************************************************)
(* schema.py: the canonical record                                         *)
(***************************************************************************)
\* The fields kept of each dataclass; the ones left out (airline_code, the
\* airport names and times of a segment, area/access/amenities/room_type/
\* bed_width_cm of a hotel, deposit/seats_available/min_travelers of a price,
\* the remaining date parts, package_type, package_links, extracted_elements)
\* are copied by every operation below exactly like a kept field of their type.
FlightSegmentFields == {"flight_number", "airline", "departure_code", "arrival_code", "date"}

FlightSegment == [flight_number |-> "", airline |-> "", departure_code |-> "",
                  arrival_code |-> "", date |-> ""]

FlightInfo == [outbound |-> FlightSegment, return_ |-> FlightSegment]

HotelInfo == [name |-> "", names |-> <<>>, star_rating |-> None]

PriceInfo == [per_person |-> None, total |-> None, currency |-> "TWD"]

DatesInfo == [duration_days |-> None, departure_date |-> ""]

DatePricingFields == {"date", "price", "availability", "seats_remaining", "notes"}

DatePricing == [date |-> "", price |-> None, availability |-> "unknown",
                seats_remaining |-> None, notes |-> ""]

ItineraryDayFields == {"day", "content", "is_free", "is_guided"}

ItineraryDay == [day |-> 0, content |-> "", is_free |-> FALSE, is_guided |-> FALSE]

\* the attributes a ScrapeResult instance has
ScrapeResultFields ==
    {"source_id", "url", "scraped_at", "title", "flight", "hotel", "price", "dates",
     "inclusions", "date_pricing", "itinerary", "raw_text", "success", "errors", "warnings"}

\* scraped_at strings: "" | an ISO timestamp without offset | one ending in
\* "Z" | one ending in "+00:00" | a string that is no ISO timestamp
NoTimestamp == [kind |-> "empty", t |-> 0]

Naive(t) == [kind |-> "naive", t |-> t]

ZSuffixed(t) == [kind |-> "z", t |-> t]

BadTimestamp == [kind |-> "bad", t |-> 0]

ScrapeResult ==
    [source_id |-> <<>>, url |-> <<>>, scraped_at |-> NoTimestamp, title |-> "",
     flight |-> FlightInfo, hotel |-> HotelInfo, price |-> PriceInfo, dates |-> DatesInfo,
     inclusions |-> <<>>, date_pricing |-> EmptyDict, itinerary |-> <<>>,
     raw_text |-> "", success |-> TRUE, errors |-> <<>>, warnings |-> <<>>]

\* mutant: both airport codes are asked for
SegmentIsPopulated_BothCodes(s) ==
    s.flight_number # "" /\ (s.departure_code # "" /\ s.arrival_code # "")

\* FlightSegment.is_populated
SegmentIsPopulated(s) ==
    s.flight_number # "" /\ (s.departure_code # "" \/ s.arrival_code # "")

\* mutant: the attribute name is written out
FlightInfoToDict_NoRename(f) == f

\* FlightInfo.to_dict
FlightInfoToDict(f) == [outbound |-> f.outbound, return |-> f.return_]

\* FlightSegment(**{k: v for k, v in data.items() if k in __dataclass_fields__})
SegmentFromDict(data) ==
    [k \in FlightSegmentFields |-> Get(data, k, FlightSegment[k])]

\* mutant: the return segment is looked up under the attribute name only
FlightInfoFromDict_AttributeName(data) ==
    [outbound |-> SegmentFromDict(Get(data, "outbound", EmptyDict)),
     return_  |-> SegmentFromDict(Get(data, "return_", EmptyDict))]

\* FlightInfo.from_dict
FlightInfoFromDict(data) ==
    [outbound |-> SegmentFromDict(Get(data, "outbound", EmptyDict)),
     return_  |-> SegmentFromDict(Get(data, "return", Get(data, "return_", EmptyDict)))]

\* vv is not None and vv != "" for a DatePricing field of its declared type
DatePricingKept(k, v) ==
    IF k \in {"price", "seats_remaining"} THEN v # None ELSE v # ""

\* v is not None and v != "" and v != 0 and v is not False, for an
\* ItineraryDay field of its declared type
ItineraryKept(k, v) ==
    IF k = "day" THEN v # 0
    ELSE IF k = "content" THEN v # ""
    ELSE v # FALSE

\* mutant: to_dict leaves a date_pricing entry as asdict gives it
DatePricingToDict_AllFields(v) == v

\* a date_pricing entry as to_dict writes it
DatePricingToDict(v) ==
    [k \in {kk \in DatePricingFields : DatePricingKept(kk, v[kk])} |-> v[k]]

ItineraryDayToDict(day) ==
    IF ~day.is_free /\ ~day.is_guided
    THEN [k \in {kk \in ItineraryDayFields : ItineraryKept(kk, day[kk])} |-> day[k]]
    ELSE day

\* ScrapeResult.to_dict
to_dict(r) ==
    [r EXCEPT !.flight = FlightInfoToDict(r.flight),
              !.date_pricing = [k \in DOMAIN r.date_pricing |->
                                    DatePricingToDict(r.date_pricing[k])],
              !.itinerary = [i \in DOMAIN r.itinerary |->
                                    ItineraryDayToDict(r.itinerary[i])]]

\* mutant: the legacy shape is assumed as soon as the key is there
use_legacy_KeyPresent(data) == "extracted" \in DOMAIN data

\* use_legacy = bool(data.get("extracted", {}))
use_legacy(data) == Truthy(Get(data, "extracted", EmptyDict))

\* ScrapeResult.from_dict
from_dict(data) ==
    LET extracted  == Get(data, "extracted", EmptyDict)
        Field(k, dflt) == IF use_legacy(data) THEN Get(extracted, k, dflt)
                          ELSE Get(data, k, dflt)
        flight_data == Field("flight", EmptyDict)
        hotel_data  == Field("hotel", EmptyDict)
        price_data  == Field("price", EmptyDict)
        dates_data  == Field("dates", EmptyDict)
        dp_data     == Field("date_pricing", EmptyDict)
        itin_data   == Field("itinerary", <<>>)
    IN  [source_id  |-> Get(data, "source_id", Get(data, "source", <<>>)),
         url        |-> Get(data, "url", <<>>),
         scraped_at |-> Get(data, "scraped_at", NoTimestamp),
         title      |-> Get(data, "title", ""),
         raw_text   |-> Get(data, "raw_text", ""),
         errors     |-> Get(data, "errors", <<>>),
         warnings   |-> Get(data, "warnings", <<>>),
         success    |-> Get(data, "success", TRUE),
         flight     |-> IF Truthy(flight_data) THEN FlightInfoFromDict(flight_data)
                        ELSE FlightInfo,
         hotel      |-> IF Truthy(hotel_data)
                        THEN [name        |-> Get(hotel_data, "name", ""),
                              names       |-> Get(hotel_data, "names", <<>>),
                              star_rating |-> Get(hotel_data, "star_rating", None)]
                        ELSE HotelInfo,
         price      |-> IF Truthy(price_data)
                        THEN [per_person |-> Get(price_data, "per_person", None),
                              total      |-> Get(price_data, "total", None),
                              currency   |-> Get(price_data, "currency", "TWD")]
                        ELSE PriceInfo,
         dates      |-> IF Truthy(dates_data)
                        THEN [duration_days  |-> Get(dates_data, "duration_days", None),
                              departure_date |-> Get(dates_data, "departure_date", "")]
                        ELSE DatesInfo,
         inclusions |-> Field("inclusions", <<>>),
         date_pricing |->
            IF Truthy(dp_data)
            THEN [k \in DOMAIN dp_data |->
                    [date            |-> k,
                     price           |-> Get(dp_data[k], "price", None),
                     availability    |-> Get(dp_data[k], "availability", "unknown"),
                     seats_remaining |-> Get(dp_data[k], "seats_remaining", None),
                     notes           |-> Get(dp_data[k], "notes", "")]]
            ELSE EmptyDict,
         itinerary |->
            IF Truthy(itin_data)
            THEN [i \in DOMAIN itin_data |->
                    [day       |-> Get(itin_data[i], "day", 0),
                     content   |-> Get(itin_data[i], "content", ""),
                     is_free   |-> Get(itin_data[i], "is_free", FALSE),
                     is_guided |-> Get(itin_data[i], "is_guided", FALSE)]]
            ELSE <<>>]

\* mutant: the itinerary is left out of the legacy shape
to_legacy_dict_NoItinerary(r) ==
    LET Present(d, keep(_, _)) == [k \in {kk \in DOMAIN d : keep(kk, d[kk])} |-> d[k]]
        PriceKept(k, v) == IF k = "currency" THEN TRUE ELSE v # None
        DatesKept(k, v) == IF k = "duration_days" THEN v # None ELSE TRUE
        LegacyKept(k, v) == k # "date" /\ DatePricingKept(k, v)
        extracted ==
            [flight       |-> FlightInfoToDict(r.flight),
             hotel        |-> r.hotel,
             price        |-> Present(r.price, PriceKept),
             dates        |-> Present(r.dates, DatesKept),
             inclusions   |-> r.inclusions,
             date_pricing |-> [k \in DOMAIN r.date_pricing |->
                                  Present(r.date_pricing[k], LegacyKept)]]
    IN  [source_id |-> r.source_id, url |-> r.url, scraped_at |-> r.scraped_at,
         title |-> r.title, raw_text |-> r.raw_text, extracted |-> extracted]

\* ScrapeResult.to_legacy_dict
to_legacy_dict(r) ==
    LET Present(d, keep(_, _)) == [k \in {kk \in DOMAIN d : keep(kk, d[kk])} |-> d[k]]
        PriceKept(k, v) == IF k = "currency" THEN TRUE ELSE v # None
        DatesKept(k, v) == IF k = "duration_days" THEN v # None ELSE TRUE
        LegacyKept(k, v) == k # "date" /\ DatePricingKept(k, v)
        extracted ==
            [flight       |-> FlightInfoToDict(r.flight),
             hotel        |-> r.hotel,
             price        |-> Present(r.price, PriceKept),
             dates        |-> Present(r.dates, DatesKept),
             inclusions   |-> r.inclusions,
             date_pricing |-> [k \in DOMAIN r.date_pricing |->
                                  Present(r.date_pricing[k], LegacyKept)]]
        with_itinerary ==
            [k \in DOMAIN extracted \cup {"itinerary"} |->
                IF k = "itinerary" THEN r.itinerary ELSE extracted[k]]
    IN  [source_id |-> r.source_id, url |-> r.url, scraped_at |-> r.scraped_at,
         title |-> r.title, raw_text |-> r.raw_text,
         extracted |-> IF r.itinerary # <<>> THEN with_itinerary ELSE extracted]

\* mutant: a price equal to the floor is reported too
SuspiciouslyLow_Inclusive(price, floor) == price # None /\ price[1] <= floor

\* price is not None and price < floor
SuspiciouslyLow(price, floor) == price # None /\ price[1] < floor

\* validate_result.  A warning is <<text, subject>>; the warnings about
\* date_pricing come in the order the dict yields its keys, which the model
\* does not keep: they are listed in some fixed order of the keys.
validate_result(r) ==
    LET If(c, text) == IF c THEN << <<text, "">> >> ELSE <<>>
        outbound == SegmentIsPopulated(r.flight.outbound)
        return_  == SegmentIsPopulated(r.flight.return_)
        RECURSIVE DatePricingWarnings(_)
        DatePricingWarnings(keys) ==
            IF keys = {} THEN <<>>
            ELSE LET date_key == CHOOSE k \in keys : TRUE
                 IN  (IF SuspiciouslyLow(r.date_pricing[date_key].price, 1000)
                      THEN << <<"Date pricing suspiciously low", date_key>> >> ELSE <<>>)
                     \o DatePricingWarnings(keys \ {date_key})
    IN  If(r.source_id = <<>>, "Missing source_id")
        \o If(r.url = <<>>, "Missing url")
        \o If(r.scraped_at.kind = "empty", "Missing scraped_at timestamp")
        \o If(r.title = "", "Missing page title")
        \o (IF ~(outbound \/ return_) THEN If(TRUE, "No flight data extracted")
            ELSE If(outbound /\ r.flight.outbound.date = "", "Outbound flight missing date")
                 \o If(return_ /\ r.flight.return_.date = "", "Return flight missing date"))
        \o If(r.hotel.name = "" /\ r.hotel.names = <<>>, "No hotel data extracted")
        \o (IF r.price.per_person = None THEN If(TRUE, "No price data extracted")
            ELSE If(SuspiciouslyLow(r.price.per_person, 5000), "Price suspiciously low"))
        \o DatePricingWarnings(DOMAIN r.date_pricing)

(***************************************************************************)
(* cache.py: ScrapeCache                                                   *)
(***************************************************************************)
\* ScrapeCache.__init__(default_ttl_hours=24)
default_ttl == 24

\* hashlib.sha256(key_str.encode()).hexdigest()[:16].  The digest is taken to
\* be collision free: the digest of a string is represented by the string.
Sha256Hex16(key_str) == key_str

\* a keyword argument k="v"
KV == <<(<<"k">>), (<<"v">>)>>

\* ScrapeCache._cache_key
cache_key(source_id, url, kwargs) ==
    LET items == SortedItems(kwargs)
        key_parts == <<source_id, url>> \o
                     [i \in 1..Len(items) |-> items[i][1] \o <<"=">> \o items[i][2]]
    IN  Sha256Hex16(Join(key_parts, "|"))

\* what a cache file holds: a JSON document json.load accepts and from_dict
\* can read, a document from_dict cannot read (not an object), or bytes that
\* are not JSON (a write cut short, a damaged file)
JsonFile(data) == [kind |-> "json", data |-> data]

NotAnObjectFile == [kind |-> "not_object", data |-> EmptyDict]

InvalidFile == [kind |-> "invalid", data |-> EmptyDict]

\* scraped_at.replace("Z", "+00:00")
ReplaceZ(s) == IF s.kind = "z" THEN [kind |-> "offset", t |-> s.t] ELSE s

\* datetime.fromisoformat: raises ValueError unless the string is an ISO
\* timestamp; one with an offset gives an aware datetime
FromIsoFormat(s) ==
    [ok |-> s.kind \in {"naive", "offset"}, aware |-> s.kind = "offset", t |-> s.t]

\* ScrapeCache._age_str at clock t
age_str(scraped_at, t) ==
    LET st == FromIsoFormat(ReplaceZ(scraped_at))
        hours == t - st.t
    IN  IF ~st.ok \/ st.aware THEN [n |-> 0, unit |-> "unknown"]
        ELSE IF hours < 1 THEN [n |-> hours * 60, unit |-> "m"]
        ELSE IF hours < 24 THEN [n |-> hours, unit |-> "h"]
        ELSE [n |-> hours \div 24, unit |-> "d"]

\* a warning is its text; the cache's provenance warning carries the age
Warning(text) == [text |-> text, age |-> [n |-> 0, unit |-> ""]]

\* mutant: the provenance warning has another text
LoadedFromCache_Unmarked(age) == [text |-> "Cached", age |-> age]

LoadedFromCache(age) == [text |-> "Loaded from cache", age |-> age]

\* an operation's outcome: the exception that left it ("" when it returned)
\* and the value it returned
Returned(value) == [raised |-> "", value |-> value, message |-> <<>>]

Raised(exc) == [raised |-> exc, value |-> None, message |-> <<>>]

\* mutant: an entry is expired only from twice the ttl on
GetTry_LateExpiry(fs, t, read_ok, key) ==
    IF ~read_ok THEN Raised("OSError")
    ELSE IF fs[key].kind = "invalid" THEN Raised("JSONDecodeError")
    ELSE IF fs[key].kind = "not_object" THEN Raised("AttributeError")
    ELSE LET data == fs[key].data
             scraped_at == Get(data, "scraped_at", NoTimestamp)
             scraped_time == FromIsoFormat(ReplaceZ(scraped_at))
             result == from_dict(data)
         IN  IF scraped_at.kind # "empty" /\ ~scraped_time.ok THEN Raised("ValueError")
             ELSE IF scraped_at.kind # "empty" /\ scraped_time.aware THEN Raised("TypeError")
             ELSE IF scraped_at.kind # "empty" /\ t - scraped_time.t > 2 * default_ttl
                  THEN Returned(None)
             ELSE Returned(Some([result EXCEPT !.warnings =
                        Append(@, LoadedFromCache(age_str(scraped_at, t)))]))

\* the try block of ScrapeCache.get, lines 54-68
GetTry(fs, t, read_ok, key) ==
    IF ~read_ok THEN Raised("OSError")
    ELSE IF fs[key].kind = "invalid" THEN Raised("JSONDecodeError")
    ELSE IF fs[key].kind = "not_object" THEN Raised("AttributeError")
    ELSE LET data == fs[key].data
             scraped_at == Get(data, "scraped_at", NoTimestamp)
             scraped_time == FromIsoFormat(ReplaceZ(scraped_at))
             result == from_dict(data)
         IN  IF scraped_at.kind # "empty" /\ ~scraped_time.ok THEN Raised("ValueError")
             ELSE IF scraped_at.kind # "empty" /\ scraped_time.aware THEN Raised("TypeError")
             ELSE IF scraped_at.kind # "empty" /\ t - scraped_time.t > default_ttl
                  THEN Returned(None)
             ELSE Returned(Some([result EXCEPT !.warnings =
                        Append(@, LoadedFromCache(age_str(scraped_at, t)))]))

\* mutant: the exception is passed on to the caller
GetExcept_Reraise(attempt) == attempt

\* the except clause of ScrapeCache.get, lines 70-72
GetExcept(attempt) == IF attempt.raised # "" THEN Returned(None) ELSE attempt

\* ScrapeCache.get at clock t; read_ok: whether the file can be opened and read
CacheGet(fs, t, read_ok, source_id, url, kwargs) ==
    LET key == cache_key(source_id, url, kwargs)
    IN  IF key \notin DOMAIN fs THEN Returned(None)
        ELSE GetExcept(GetTry(fs, t, read_ok, key))

\* fs with the file of key replaced
WriteFile(fs, key, content) ==
    [k \in DOMAIN fs \cup {key} |-> IF k = key THEN content ELSE fs[k]]

\* the try block of ScrapeCache.set, lines 84-87.  io: "ok"; "open_fails"
\* (to_dict or open raises: nothing is written); "dump_fails" (json.dump or
\* the write raises after open(path, "w") has truncated the file)
SetTry(fs, result, key, io) ==
    IF io = "open_fails" THEN [files |-> fs, raised |-> "OSError"]
    ELSE IF io = "dump_fails"
         THEN [files |-> WriteFile(fs, key, InvalidFile), raised |-> "TypeError"]
    ELSE [files |-> WriteFile(fs, key, JsonFile(to_dict(result))), raised |-> ""]

\* the except clause of ScrapeCache.set, lines 88-89
SetExcept(attempt) == [attempt EXCEPT !.raised = ""]

\* how a set's file I/O can end
SetOutcomes == {"ok", "open_fails", "dump_fails"}

\* ScrapeCache.set
CacheSet(fs, result, kwargs, io) ==
    SetExcept(SetTry(fs, result, cache_key(result.source_id, result.url, kwargs), io))

\* ScrapeCache.invalidate
CacheInvalidate(fs, source_id, url, kwargs) ==
    LET key == cache_key(source_id, url, kwargs)
    IN  [k \in DOMAIN fs \ {key} |-> fs[k]]

\* ScrapeCache.clear: the source_id branch is "pass", every *.json is unlinked
CacheClear(fs, source_id) == EmptyDict

(***************************************************************************)
(* The cache operations as actions                                         *)
(***************************************************************************)
\* the record of the most recent operation
Op(op, source_id, url, kwargs, result, io, outcome, after) ==
    [op |-> op, source_id |-> source_id, url |-> url, kwargs |-> kwargs,
     result |-> result, io |-> io, ret |-> outcome.value, raised |-> outcome.raised,
     after |-> after]

NoOp == Op("none", <<>>, <<>>, <<>>, None, "", Returned(None), None)

\* the result a get directly follows: that of a set of the same identity that
\* wrote its file, when that set is the operation before
AfterSet(source_id, url, kwargs) ==
    IF /\ last.op = "set" /\ last.io = "ok"
       /\ last.source_id = source_id /\ last.url = url /\ last.kwargs = kwargs
    THEN last.result ELSE None

\* mutant: a get that misses on an existing file unlinks it
Get_Evicting(source_id, url, kwargs, read_ok) ==
    LET outcome == CacheGet(files, now, read_ok, source_id, url, kwargs)
    IN  /\ last' = Op("get", source_id, url, kwargs, None,
                      IF read_ok THEN "ok" ELSE "read_fails", outcome,
                      AfterSet(source_id, url, kwargs))
        /\ files' = IF outcome.value = None
                    THEN CacheInvalidate(files, source_id, url, kwargs) ELSE files
        /\ UNCHANGED <<now, pureVars, registryVars, scrapeVars>>

\* ScrapeCache.get(source_id, url, **kwargs): the file is opened for reading only
Get_(source_id, url, kwargs, read_ok) ==
    /\ last' = Op("get", source_id, url, kwargs, None,
                  IF read_ok THEN "ok" ELSE "read_fails",
                  CacheGet(files, now, read_ok, source_id, url, kwargs),
                  AfterSet(source_id, url, kwargs))
    /\ UNCHANGED <<files, now, pureVars, registryVars, scrapeVars>>

Set_(result, kwargs, io) ==
    LET done == CacheSet(files, result, kwargs, io)
    IN  /\ files' = done.files
        /\ last' = Op("set", result.source_id, result.url, kwargs, Some(result), io,
                      [Returned(None) EXCEPT !.raised = done.raised], None)
        /\ UNCHANGED <<now, pureVars, registryVars, scrapeVars>>

\* ScrapeCache.invalidate(source_id, url, **kwargs)
Invalidate_(source_id, url, kwargs) ==
    /\ files' = CacheInvalidate(files, source_id, url, kwargs)
    /\ last' = Op("invalidate", source_id, url, kwargs, None, "ok", Returned(None), None)
    /\ UNCHANGED <<now, pureVars, registryVars, scrapeVars>>

\* ScrapeCache.clear(source_id); <<>> stands for no argument
Clear_(source_id) ==
    /\ files' = CacheClear(files, source_id)
    /\ last' = Op("clear", source_id, <<>>, <<>>, None, "ok", Returned(None), None)
    /\ UNCHANGED <<now, pureVars, registryVars, scrapeVars>>

\* time passes: the clock moves on to the ttl boundary or just past it
Tick ==
    /\ \E t \in {default_ttl, default_ttl + 1} :
          /\ t > now
          /\ t <= MaxTime
          /\ now' = t
    /\ last' = [NoOp EXCEPT !.op = "tick"]
    /\ UNCHANGED <<files, pureVars, registryVars, scrapeVars>>

\* the file system damages a cache file (disk fault, another writer)
Damage(key, content) ==
    /\ key \in DOMAIN files
    /\ files[key] # content
    /\ files' = WriteFile(files, key, content)
    /\ last' = [NoOp EXCEPT !.op = "damage"]
    /\ UNCHANGED <<now, pureVars, registryVars, scrapeVars>>

(***************************************************************************)
(* registry.py                                                             *)
(***************************************************************************)
\* _URL_PATTERNS in list order.  A url and a pattern are sequences of atoms
\* (substrings no pattern splits); every pattern is a literal, so that
\* re.search(pattern, url) holds iff the pattern's atoms occur in the url
\* next to each other.
URL_PATTERNS ==
    <<[pattern |-> <<"besttour.com.tw">>,              source_id |-> "besttour"],
      [pattern |-> <<"liontravel.com">>,               source_id |-> "liontravel"],
      [pattern |-> <<"lifetour.com.tw">>,              source_id |-> "lifetour"],
      [pattern |-> <<"settour.com.tw">>,               source_id |-> "settour"],
      [pattern |-> <<"tigerairtw.com">>,               source_id |-> "tigerair"],
      [pattern |-> <<"trip.com">>,                     source_id |-> "trip"],
      [pattern |-> <<"google.com", "/travel/flights">>, source_id |-> "google_flights"],
      [pattern |-> <<"agoda.com">>,                    source_id |-> "agoda"],
      [pattern |-> <<"eztravel.com.tw">>,              source_id |-> "eztravel"],
      [pattern |-> <<"booking.com">>,                  source_id |-> "booking"]>>

\* re.search(pattern, url)
re_search(pattern, url) ==
    \E i \in 1..(Len(url) - Len(pattern) + 1) :
        SubSeq(url, i, i + Len(pattern) - 1) = pattern

\* the for loop of detect_ota from the i-th pair on
RECURSIVE DetectFrom(_, _)
DetectFrom(url, i) ==
    IF i > Len(URL_PATTERNS) THEN None
    ELSE IF re_search(URL_PATTERNS[i].pattern, url) THEN Some(URL_PATTERNS[i].source_id)
    ELSE DetectFrom(url, i + 1)

\* mutant: the loop goes on after a match, so that the last match wins
RECURSIVE DetectLast(_, _)
DetectLast(url, i) ==
    IF i < 1 THEN None
    ELSE IF re_search(URL_PATTERNS[i].pattern, url) THEN Some(URL_PATTERNS[i].source_id)
    ELSE DetectLast(url, i - 1)

detect_ota_LastMatch(url) == DetectLast(url, Len(URL_PATTERNS))

\* detect_ota
detect_ota(url) == DetectFrom(url, 1)

\* the if/elif chain of _create_parser: source id -> the class constructed,
\* with the source_id attribute of that class
\* mutant: TripComParser names itself after its module
ParserClasses_ModuleName ==
    [besttour       |-> [class |-> "BestTourParser",      source_id |-> "besttour"],
     liontravel     |-> [class |-> "LionTravelParser",    source_id |-> "liontravel"],
     lifetour       |-> [class |-> "LifetourParser",      source_id |-> "lifetour"],
     settour        |-> [class |-> "SettourParser",       source_id |-> "settour"],
     tigerair       |-> [class |-> "TigerairParser",      source_id |-> "tigerair"],
     trip           |-> [class |-> "TripComParser",       source_id |-> "trip_com"],
     google_flights |-> [class |-> "GoogleFlightsParser", source_id |-> "google_flights"],
     agoda          |-> [class |-> "AgodaParser",         source_id |-> "agoda"],
     eztravel       |-> [class |-> "EzTravelParser",      source_id |-> "eztravel"]]

ParserClasses ==
    [besttour       |-> [class |-> "BestTourParser",      source_id |-> "besttour"],
     liontravel     |-> [class |-> "LionTravelParser",    source_id |-> "liontravel"],
     lifetour       |-> [class |-> "LifetourParser",      source_id |-> "lifetour"],
     settour        |-> [class |-> "SettourParser",       source_id |-> "settour"],
     tigerair       |-> [class |-> "TigerairParser",      source_id |-> "tigerair"],
     trip           |-> [class |-> "TripComParser",       source_id |-> "trip"],
     google_flights |-> [class |-> "GoogleFlightsParser", source_id |-> "google_flights"],
     agoda          |-> [class |-> "AgodaParser",         source_id |-> "agoda"],
     eztravel       |-> [class |-> "EzTravelParser",      source_id |-> "eztravel"]]

\* get_available_parsers
get_available_parsers ==
    <<"besttour", "liontravel", "lifetour", "settour", "tigerair", "trip",
      "google_flights", "agoda", "eztravel">>

\* the ids after "Available:" in the message of _create_parser's ValueError
AvailableInMessage ==
    <<"besttour", "liontravel", "lifetour", "settour", "tigerair", "trip",
      "google_flights", "agoda", "eztravel">>

\* mutant: the message was not updated when the last parser was registered
create_parser_StaleMessage(source_id, serial) ==
    IF source_id \in DOMAIN ParserClasses
    THEN Returned(Some([class     |-> ParserClasses[source_id].class,
                        source_id |-> ParserClasses[source_id].source_id,
                        serial    |-> serial]))
    ELSE [Raised("ValueError") EXCEPT
            !.message = SubSeq(AvailableInMessage, 1, Len(AvailableInMessage) - 1)]

\* _create_parser; serial tells the objects of one class apart
create_parser(source_id, serial) ==
    IF source_id \in DOMAIN ParserClasses
    THEN Returned(Some([class     |-> ParserClasses[source_id].class,
                        source_id |-> ParserClasses[source_id].source_id,
                        serial    |-> serial]))
    ELSE [Raised("ValueError") EXCEPT !.message = AvailableInMessage]

\* mutant: the parser is constructed on every call and never remembered
get_parser_NoMemo(cache, made, source_id) ==
    LET parser == create_parser(source_id, made[source_id] + 1)
    IN  IF parser.raised # ""
        THEN [cache |-> cache, made |-> made, outcome |-> parser, memo |-> FALSE]
        ELSE [cache |-> cache, made |-> [made EXCEPT ![source_id] = @ + 1],
              outcome |-> parser, memo |-> FALSE]

\* get_parser on the memo `cache`; made counts the constructions
get_parser(cache, made, source_id) ==
    IF source_id \in DOMAIN cache
    THEN [cache |-> cache, made |-> made,
          outcome |-> Returned(Some(cache[source_id])), memo |-> TRUE]
    ELSE LET parser == create_parser(source_id, made[source_id] + 1)
         IN  IF parser.raised # ""
             THEN [cache |-> cache, made |-> made, outcome |-> parser, memo |-> FALSE]
             ELSE [cache |-> [k \in DOMAIN cache \cup {source_id} |->
                                IF k = source_id THEN parser.value[1] ELSE cache[k]],
                   made |-> [made EXCEPT ![source_id] = @ + 1],
                   outcome |-> parser, memo |-> FALSE]

\* the source ids callers ask for: the registered ones, the one the url
\* patterns name without a parser, and one nobody registered
RequestedIds == DOMAIN ParserClasses \cup {"booking", "nonexistent_ota"}

GetParser(source_id) ==
    LET call == get_parser(parser_cache, constructed, source_id)
    IN  /\ parser_cache' = call.cache
        /\ constructed' = call.made
        /\ returned' = IF call.outcome.raised = ""
                       THEN [returned EXCEPT ![source_id] = @ \cup {call.outcome.value[1]}]
                       ELSE returned
        /\ out' = [source_id |-> source_id, raised |-> call.outcome.raised,
                   value |-> call.outcome.value, message |-> call.outcome.message,
                   memo |-> call.memo]
        /\ UNCHANGED <<cacheVars, arg, scrapeVars>>

(***************************************************************************)
(* base.py: navigate_with_retry                                            *)
(***************************************************************************)
max_retries_default == 3

backoff_base_default == 2

\* mutant: the fallback strategy is tried first
strategies_FallbackFirst == <<"domcontentloaded", "networkidle">>

strategies == <<"networkidle", "domcontentloaded">>

RECURSIVE Pow(_, _)
Pow(b, e) == IF e = 0 THEN 1 ELSE b * Pow(b, e - 1)

NavIdle ==
    [pc |-> "idle", max_retries |-> 0, backoff_base |-> 0, attempt |-> 0, strategy |-> 1,
     gotos |-> <<>>, sleeps |-> <<>>, ret |-> Returned(None)]

\* entering navigate_with_retry: range(max_retries) is empty for 0
NavStart(max_retries, backoff_base) ==
    IF max_retries = 0
    THEN [NavIdle EXCEPT !.pc = "returned", !.backoff_base = backoff_base,
                         !.ret = Returned(Some(FALSE))]
    ELSE [NavIdle EXCEPT !.pc = "goto", !.max_retries = max_retries,
                         !.backoff_base = backoff_base]

\* mutant: the last failure is raised to the caller instead of returning False
NavGotoStep_RaiseOnExhaustion(n, ok) ==
    LET logged == [n EXCEPT !.gotos = Append(@, [strategy |-> strategies[n.strategy],
                                                  ok |-> ok])]
    IN  IF ok THEN [logged EXCEPT !.pc = "returned", !.ret = Returned(Some(TRUE))]
        ELSE IF strategies[n.strategy] = "networkidle"
             THEN [logged EXCEPT !.strategy = n.strategy + 1]
        ELSE IF n.attempt < n.max_retries - 1
             THEN [logged EXCEPT !.pc = "sleep",
                                 !.sleeps = Append(@, Pow(n.backoff_base, n.attempt + 1))]
        ELSE [logged EXCEPT !.pc = "returned", !.ret = Raised("Error")]

\* mutant: the exponent is the attempt index, so the first wait is 1 second
NavGotoStep_BackoffFromZero(n, ok) ==
    LET logged == [n EXCEPT !.gotos = Append(@, [strategy |-> strategies[n.strategy],
                                                  ok |-> ok])]
    IN  IF ok THEN [logged EXCEPT !.pc = "returned", !.ret = Returned(Some(TRUE))]
        ELSE IF strategies[n.strategy] = "networkidle"
             THEN [logged EXCEPT !.strategy = n.strategy + 1]
        ELSE IF n.attempt < n.max_retries - 1
             THEN [logged EXCEPT !.pc = "sleep",
                                 !.sleeps = Append(@, Pow(n.backoff_base, n.attempt))]
        ELSE [logged EXCEPT !.pc = "returned", !.ret = Returned(Some(FALSE))]

\* one await page.goto(url, wait_until=strategy) and the code up to the next
\* await or return; ok: the call returned, otherwise it raised an Exception
NavGotoStep(n, ok) ==
    LET logged == [n EXCEPT !.gotos = Append(@, [strategy |-> strategies[n.strategy],
                                                  ok |-> ok])]
    IN  IF ok THEN [logged EXCEPT !.pc = "returned", !.ret = Returned(Some(TRUE))]
        ELSE IF strategies[n.strategy] = "networkidle"
             THEN [logged EXCEPT !.strategy = n.strategy + 1]
        ELSE IF n.attempt < n.max_retries - 1
             THEN [logged EXCEPT !.pc = "sleep",
                                 !.sleeps = Append(@, Pow(n.backoff_base, n.attempt + 1))]
        ELSE [logged EXCEPT !.pc = "returned", !.ret = Returned(Some(FALSE))]

\* await asyncio.sleep(wait_time) is over: break, next attempt
NavSleepStep(n) ==
    [n EXCEPT !.pc = "goto", !.attempt = n.attempt + 1, !.strategy = 1]

NavGoto ==
    /\ nav.pc = "goto"
    /\ \E ok \in BOOLEAN : nav' = NavGotoStep(nav, ok)
    /\ UNCHANGED <<cacheVars, pureVars, registryVars, task, prev>>

NavSleep ==
    /\ nav.pc = "sleep"
    /\ nav' = NavSleepStep(nav)
    /\ UNCHANGED <<cacheVars, pureVars, registryVars, task, prev>>

(***************************************************************************)
(* base.py: BaseScraper.scrape                                             *)
(***************************************************************************)
\* self.source_id of the parser that scrapes
ScrapeSourceId == <<"a">>

TaskIdle ==
    [pc |-> "idle", url |-> <<>>, use_cache |-> FALSE, kwargs |-> <<>>, started |-> 0,
     read_ok |-> TRUE, result |-> ScrapeResult, steps |-> {}, ret |-> Returned(None)]

NoPrev ==
    [valid |-> FALSE, url |-> <<>>, kwargs |-> <<>>, use_cache |-> FALSE,
     navigated |-> FALSE, steps |-> {}, scraped_at |-> NoTimestamp, raised |-> ""]

\* the task has left scrape: returning value, or raising exc
Leave(t, outcome) == [t EXCEPT !.pc = "done", !.ret = outcome]

\* mutant: the cache is looked up whatever use_cache says
ScrapeEnter_AlwaysReads(fs, t_now, url, use_cache, kwargs, read_ok) ==
    LET cached == CacheGet(fs, t_now, read_ok, ScrapeSourceId, url, kwargs).value
        called == [TaskIdle EXCEPT !.url = url, !.use_cache = use_cache, !.kwargs = kwargs,
                                   !.started = t_now, !.read_ok = read_ok]
    IN  IF cached # None
        THEN [task |-> Leave([called EXCEPT !.steps = {"cache_get"}], Returned(cached)),
              nav |-> NavIdle]
        ELSE [task |-> [called EXCEPT
                          !.pc = "navigate",
                          !.steps = {"cache_get"},
                          !.result = [ScrapeResult EXCEPT !.source_id = ScrapeSourceId,
                                                          !.url = url,
                                                          !.scraped_at = Naive(t_now)]],
              nav |-> NavStart(max_retries_default, backoff_base_default)]

\* lines 426-444: the cache lookup, the fresh result, the call of
\* navigate_with_retry(page, url) up to its first await
ScrapeEnter(fs, t_now, url, use_cache, kwargs, read_ok) ==
    LET cached == IF use_cache
                  THEN CacheGet(fs, t_now, read_ok, ScrapeSourceId, url, kwargs).value
                  ELSE None
        called == [TaskIdle EXCEPT !.url = url, !.use_cache = use_cache, !.kwargs = kwargs,
                                   !.started = t_now, !.read_ok = read_ok]
    IN  IF use_cache /\ cached # None
        THEN [task |-> Leave([called EXCEPT !.steps = {"cache_get"}], Returned(cached)),
              nav |-> NavIdle]
        ELSE [task |-> [called EXCEPT
                          !.pc = "navigate",
                          !.steps = IF use_cache THEN {"cache_get"} ELSE {},
                          !.result = [ScrapeResult EXCEPT !.source_id = ScrapeSourceId,
                                                          !.url = url,
                                                          !.scraped_at = Naive(t_now)]],
              nav |-> NavStart(max_retries_default, backoff_base_default)]

\* mutant: the failure is recorded but the return is missing
AfterNavigate_NoReturn(t, success) ==
    IF ~success
    THEN [t EXCEPT !.pc = "settle",
                   !.result = [@ EXCEPT !.success = FALSE,
                                        !.errors = Append(@, "Failed to navigate")]]
    ELSE [t EXCEPT !.pc = "settle"]

\* lines 445-451: navigate_with_retry has returned success
AfterNavigate(t, success) ==
    IF ~success
    THEN LET failed == [t.result EXCEPT !.success = FALSE,
                                        !.errors = Append(@, "Failed to navigate")]
         IN  Leave([t EXCEPT !.result = failed], Returned(Some(failed)))
    ELSE [t EXCEPT !.pc = "settle"]

\* an awaited collaborator call outside any try: it returns and scrape goes
\* on to `next`, or it raises and the exception leaves scrape
Await(t, step, ok, next) ==
    IF ok THEN [t EXCEPT !.pc = next, !.steps = @ \cup {step}]
    ELSE Leave([t EXCEPT !.steps = @ \cup {step}], Raised("Error"))

\* what page.evaluate("document.body.innerText") can return
RawTexts == {"", "plain text", "text with baggage 20kg"}

\* what a vendor's parse_raw_text can do: raise, or return a result
ParsedResults ==
    {ScrapeResult,
     [ScrapeResult EXCEPT !.hotel = [HotelInfo EXCEPT !.name = "H"],
                          !.price = [PriceInfo EXCEPT !.per_person = Some(25000)]]}

ParseOutcomes == {Raised("Error")} \cup {Returned(Some(r)) : r \in ParsedResults}

\* extract_baggage_info
extract_baggage_info(raw_text) ==
    IF raw_text = "text with baggage 20kg" THEN [included |-> Some(TRUE), kg |-> Some(20)]
    ELSE [included |-> None, kg |-> None]

\* lines 471-502, which hold no await: parse_raw_text, the merge, the
\* enrichment, the cache write, the return.  Reading an attribute an object
\* does not have raises AttributeError.
ScrapeTail(fs, t, parsed, io) ==
    IF parsed.raised # "" THEN [task |-> Leave(t, parsed), files |-> fs]
    ELSE
    LET p == parsed.value[1]
        merged == [t.result EXCEPT !.flight = p.flight, !.hotel = p.hotel,
                                   !.price = p.price, !.dates = p.dates,
                                   !.inclusions = p.inclusions,
                                   !.date_pricing = p.date_pricing,
                                   !.itinerary = p.itinerary]
        done == [t EXCEPT !.result = merged, !.steps = @ \cup {"parse", "merge"}]
    IN  IF "baggage_included" \notin ScrapeResultFields
        THEN [task |-> Leave(done, Raised("AttributeError")), files |-> fs]
        ELSE IF (merged.hotel.name # "" \/ merged.hotel.names # <<>>)
                /\ "area_type" \notin DOMAIN HotelInfo
        THEN [task |-> Leave(done, Raised("AttributeError")), files |-> fs]
        ELSE
        LET bag == extract_baggage_info(merged.raw_text)
            enriched == IF merged.baggage_included = None /\ merged.raw_text # ""
                        THEN [merged EXCEPT !.baggage_included = bag.included,
                                            !.baggage_kg = bag.kg]
                        ELSE merged
            stored == IF t.use_cache THEN CacheSet(fs, enriched, t.kwargs, io).files ELSE fs
        IN  [task |-> Leave([done EXCEPT !.result = enriched,
                                         !.steps = @ \cup {"enrich"} \cup
                                             (IF t.use_cache THEN {"cache_set"} ELSE {})],
                            Returned(Some(enriched))),
             files |-> stored]

ScrapeUrls == {<<"u">>, <<"v">>}

ScrapeCall ==
    /\ task.pc = "idle"
    /\ \E url \in ScrapeUrls, use_cache \in BOOLEAN, kwargs \in {<<>>, <<KV>>},
          read_ok \in BOOLEAN :
          LET entered == ScrapeEnter(files, now, url, use_cache, kwargs, read_ok)
          IN  task' = entered.task /\ nav' = entered.nav
    /\ UNCHANGED <<cacheVars, pureVars, registryVars, prev>>

ScrapeNavigated ==
    /\ task.pc = "navigate"
    /\ nav.pc = "returned"
    /\ task' = IF nav.ret.raised # "" THEN Leave(task, nav.ret)
               ELSE AfterNavigate(task, nav.ret.value[1])
    /\ UNCHANGED <<cacheVars, pureVars, registryVars, nav, prev>>

\* await page.wait_for_timeout(3000)
ScrapeSettle ==
    /\ task.pc = "settle"
    /\ \E ok \in BOOLEAN : task' = Await(task, "settle", ok, "prepare")
    /\ UNCHANGED <<cacheVars, pureVars, registryVars, nav, prev>>

\* await self.prepare_page(page, url)
ScrapePrepare ==
    /\ task.pc = "prepare"
    /\ \E ok \in BOOLEAN : task' = Await(task, "prepare", ok, "title")
    /\ UNCHANGED <<cacheVars, pureVars, registryVars, nav, prev>>

\* lines 457-460: result.title = await page.title(), failure swallowed
ScrapeTitle ==
    /\ task.pc = "title"
    /\ \E ok \in BOOLEAN :
          task' = [task EXCEPT !.pc = "text", !.steps = @ \cup {"title"},
                               !.result = [@ EXCEPT !.title = IF ok THEN "T" ELSE @]]
    /\ UNCHANGED <<cacheVars, pureVars, registryVars, nav, prev>>

\* safe_extract_text: "" when page.evaluate raises
ScrapeText ==
    /\ task.pc = "text"
    /\ \E ok \in BOOLEAN, text \in RawTexts :
          task' = [task EXCEPT !.pc = "elements", !.steps = @ \cup {"text"},
                               !.result = [@ EXCEPT !.raw_text = IF ok THEN text ELSE ""]]
    /\ UNCHANGED <<cacheVars, pureVars, registryVars, nav, prev>>

\* extract_generic_elements: every selector in its own try
ScrapeElements ==
    /\ task.pc = "elements"
    /\ task' = [task EXCEPT !.pc = "links", !.steps = @ \cup {"elements"}]
    /\ UNCHANGED <<cacheVars, pureVars, registryVars, nav, prev>>

\* extract_package_links: the queries are inside try blocks
ScrapeLinks ==
    /\ task.pc = "links"
    /\ task' = [task EXCEPT !.pc = "parse", !.steps = @ \cup {"links"}]
    /\ UNCHANGED <<cacheVars, pureVars, registryVars, nav, prev>>

ScrapeFinish ==
    /\ task.pc = "parse"
    /\ \E parsed \in ParseOutcomes, io \in SetOutcomes :
          LET tail == ScrapeTail(files, task, parsed, io)
          IN  task' = tail.task /\ files' = tail.files
    /\ UNCHANGED <<now, last, pureVars, registryVars, nav, prev>>

\* the caller has the outcome; it may call again
ScrapeReturn ==
    /\ task.pc = "done"
    /\ prev' = [valid |-> TRUE, url |-> task.url, kwargs |-> task.kwargs,
                use_cache |-> task.use_cache,
                navigated |-> \E i \in DOMAIN nav.gotos : nav.gotos[i].ok,
                steps |-> task.steps,
                scraped_at |-> task.result.scraped_at, raised |-> task.ret.raised]
    /\ task' = TaskIdle
    /\ nav' = NavIdle
    /\ UNCHANGED <<cacheVars, pureVars, registryVars>>

(***************************************************************************)
(* parsers/besttour.py: the flight block of a BestTour page                *)
(*                                                                         *)
(* A text is a sequence of pieces.  "(", ")", a blank, a tab, "\n" and a   *)
(* single letter are pieces of their own; any other piece is a run of      *)
(* characters that holds none of these.  The Chinese words are written in  *)
(* pinyin: "qucheng" (outbound), "huicheng" (return), "letaohangkong"      *)
(* (Peach Aviation), "taoyuan", "chengtian" (Narita), "wu" (Friday).  The  *)
(* empty str is <<>>.                                                      *)
(***************************************************************************)
\* str.strip()
RECURSIVE strip(_)
strip(s) ==
    IF s = <<>> THEN s
    ELSE IF Head(s) \in {" ", "\t"} THEN strip(Tail(s))
    ELSE IF s[Len(s)] \in {" ", "\t"} THEN strip(SubSeq(s, 1, Len(s) - 1))
    ELSE s

\* _parse_flight_block; lines and start count from 0 as in the source
parse_flight_block(lines, start) ==
    LET at(k) == IF start + k < Len(lines) THEN strip(lines[start + k + 1]) ELSE <<>>
        \* re.search(r"\(([A-Z]{3})\)", s): group 1 of the leftmost match
        capitals == {"A", "B", "C", "D", "E", "N", "P", "R", "T", "X"}
        matches(s) == {j \in 1..(Len(s) - 4) :
                          /\ s[j] = "(" /\ s[j + 4] = ")"
                          /\ \A d \in 1..3 : s[j + d] \in capitals}
        code(s) == IF matches(s) = {} THEN <<>>
                   ELSE LET j == CHOOSE m \in matches(s) : \A n \in matches(s) : m <= n
                        IN  SubSeq(s, j + 1, j + 3)
    IN  [date |-> at(1), flight_number |-> at(2), airline |-> at(3), airline_code |-> <<>>,
         departure_airport |-> at(4), departure_code |-> code(at(4)),
         departure_time |-> at(5),
         arrival_airport |-> at(7), arrival_code |-> code(at(7)), arrival_time |-> at(8)]

\* _parse_flights
parse_flights(raw_text) ==
    LET RECURSIVE split(_)
        \* raw_text.split("\n")
        split(s) == IF \A j \in DOMAIN s : s[j] # "\n" THEN <<s>>
                    ELSE LET j == CHOOSE m \in DOMAIN s :
                                      s[m] = "\n" /\ \A n \in 1..(m - 1) : s[n] # "\n"
                         IN  <<SubSeq(s, 1, j - 1)>> \o split(SubSeq(s, j + 1, Len(s)))
        lines == split(raw_text)
        empty == [f \in DOMAIN parse_flight_block(<<>>, 0) |-> <<>>]
        RECURSIVE loop(_, _)
        \* the for loop from index i on, flight_info as it stands
        loop(i, flight_info) ==
            IF i >= Len(lines) THEN flight_info
            ELSE IF strip(lines[i + 1]) = <<"qucheng">> /\ i + 8 < Len(lines)
                 THEN loop(i + 1, [flight_info EXCEPT
                                      !.outbound = parse_flight_block(lines, i)])
            ELSE IF strip(lines[i + 1]) = <<"huicheng">> /\ i + 8 < Len(lines)
                 THEN [flight_info EXCEPT !.return_ = parse_flight_block(lines, i)]
            ELSE loop(i + 1, flight_info)
    IN  loop(0, [outbound |-> empty, return_ |-> empty])

(***************************************************************************)
(* Initial values                                                          *)
(***************************************************************************)
CacheIdle == files = EmptyDict /\ now = 0 /\ last = NoOp

PureIdle == arg = None /\ out = None

RegistryIdle ==
    /\ parser_cache = EmptyDict
    /\ constructed = [s \in RequestedIds |-> 0]
    /\ returned = [s \in RequestedIds |-> {}]

ScrapeIdle == nav = NavIdle /\ task = TaskIdle /\ prev = NoPrev

(***************************************************************************)
(* SpecEntry: one cache identity, every kind of record.  Init draws the    *)
(* result and the extras the caller works with; the caller sets and gets   *)
(* it while time passes and the file system misbehaves.                     *)
(***************************************************************************)
SampleFlights ==
    {FlightInfo,
     [outbound |-> [FlightSegment EXCEPT !.flight_number = "MM620", !.departure_code = "TPE"],
      return_  |-> [FlightSegment EXCEPT !.flight_number = "MM623", !.arrival_code = "TPE",
                                         !.date = "2026-02-17"]]}

SampleDatePricing ==
    {EmptyDict,
     "2026-02-13" :> [DatePricing EXCEPT !.date = "2026-02-13", !.price = Some(25000),
                                         !.availability = "available"],
     "2026-02-13" :> [DatePricing EXCEPT !.price = Some(900)],
     "2026-02-13" :> [DatePricing EXCEPT !.date = "2026-02-13", !.availability = ""]}

SampleItineraries ==
    {<<>>,
     <<ItineraryDay>>,
     <<[ItineraryDay EXCEPT !.day = 1, !.content = "arrival"],
       [ItineraryDay EXCEPT !.day = 2, !.is_free = TRUE]>>}

SampleWarnings == {<<>>, <<Warning("No hotel data extracted")>>}

SampleTimestamps == {NoTimestamp, Naive(0), ZSuffixed(0), BadTimestamp}

SampleResults ==
    {[ScrapeResult EXCEPT !.source_id = <<"a">>, !.url = <<"u">>, !.scraped_at = ts,
                          !.title = "T", !.hotel = [HotelInfo EXCEPT !.name = "H"],
                          !.price = [PriceInfo EXCEPT !.per_person = Some(25000)],
                          !.flight = f, !.date_pricing = dp,
                          !.itinerary = it, !.warnings = w] :
        ts \in SampleTimestamps, f \in SampleFlights,
        dp \in SampleDatePricing, it \in SampleItineraries, w \in SampleWarnings}

EntryInit ==
    /\ CacheIdle
    /\ RegistryIdle
    /\ ScrapeIdle
    /\ arg \in [result : SampleResults, kwargs : {<<>>, <<KV>>}]
    /\ out = None

EntrySet == \E io \in SetOutcomes : Set_(arg.result, arg.kwargs, io)

EntryGet ==
    \E kwargs \in {<<>>, <<KV>>}, read_ok \in BOOLEAN :
        Get_(arg.result.source_id, arg.result.url, kwargs, read_ok)

EntryDamage ==
    \E key \in DOMAIN files, content \in {InvalidFile, NotAnObjectFile} :
        Damage(key, content)

EntryNext == EntrySet \/ EntryGet \/ Tick \/ EntryDamage

SpecEntry == EntryInit /\ [][EntryNext]_vars

(***************************************************************************)
(* Claims about the cache                                                  *)
(***************************************************************************)
StructuredFields == {"flight", "hotel", "price", "dates", "inclusions", "date_pricing", "itinerary"}

\* the key of the identity the last operation named
LastKey == cache_key(last.source_id, last.url, last.kwargs)

\* a get that read its file, directly after a set of the same identity
GetAfterSet == last.op = "get" /\ last.io = "ok" /\ last.after # None

\* what the claim promises of a get that follows set(r): r's structured
\* fields, and r's warnings followed by one provenance warning
SameAsSet(r) ==
    /\ last.ret # None
    /\ \A f \in StructuredFields : last.ret[1][f] = r[f]
    /\ Len(last.ret[1].warnings) = Len(r.warnings) + 1
    /\ SubSeq(last.ret[1].warnings, 1, Len(r.warnings)) = r.warnings
    /\ last.ret[1].warnings[Len(r.warnings) + 1].text = "Loaded from cache"

\* scraped_at is empty, or an ISO timestamp without offset not older than the ttl
ServedAt(scraped_at, t) ==
    \/ scraped_at.kind = "empty"
    \/ scraped_at.kind = "naive" /\ t - scraped_at.t <= default_ttl

\* every date_pricing entry has its key as date and a non-empty availability
KeyedByDate(r) ==
    \A k \in DOMAIN r.date_pricing :
        r.date_pricing[k].date = k /\ r.date_pricing[k].availability # ""

\* C2 as stated: get directly after set(r) returns r's structured fields and
\* r's warnings plus one "Loaded from cache" warning, for every result r; get
\* for a key that has no file returns None.
C2_Original ==
    /\ GetAfterSet => SameAsSet(last.after[1])
    /\ last.op = "get" /\ LastKey \notin DOMAIN files => last.ret = None

\* C2 amended: the same, for every r whose scraped_at is empty or an ISO
\* timestamp without offset within the ttl, and whose date_pricing entries
\* carry their key as date and a non-empty availability; a get for a key
\* that has no file returns None.
C2_GetAfterSet ==
    /\ GetAfterSet /\ ServedAt(last.after[1].scraped_at, now) /\ KeyedByDate(last.after[1])
          => SameAsSet(last.after[1])
    /\ last.op = "get" /\ LastKey \notin DOMAIN files => last.ret = None

\* C2 witness: a get after the set of a result with a return segment, a
\* date_pricing entry and two itinerary days is a hit
C2_Witness ==
    /\ GetAfterSet
    /\ last.ret # None
    /\ last.after[1].flight.return_.flight_number = "MM623"
    /\ DOMAIN last.after[1].date_pricing # {}
    /\ Len(last.after[1].itinerary) = 2
    /\ Len(last.after[1].warnings) = 1

\* the record stored under the key of the last operation, when the file holds one
StoredRecord == files[LastKey].data

HasRecord == LastKey \in DOMAIN files /\ files[LastKey].kind = "json"

\* C3 as stated: get returns a result only if now - scraped_at <= default_ttl
\* for the stored record, and None whenever now - scraped_at > default_ttl,
\* whatever the record's scraped_at is.
C3_Original ==
    /\ last.op = "get" /\ last.ret # None
          => /\ HasRecord
             /\ StoredRecord.scraped_at.kind \in {"naive", "z"}
             /\ now - StoredRecord.scraped_at.t <= default_ttl
    /\ last.op = "get" /\ HasRecord /\ StoredRecord.scraped_at.kind \in {"naive", "z"}
          /\ now - StoredRecord.scraped_at.t > default_ttl => last.ret = None

\* C3 amended: for every stored record whose scraped_at is not empty, get
\* returns a result only if now - scraped_at <= default_ttl and returns None
\* whenever now - scraped_at > default_ttl although the file exists; a record
\* whose scraped_at is empty is never expired.
C3_TtlExpiry ==
    /\ last.op = "get" /\ last.ret # None
          => /\ HasRecord
             /\ \/ StoredRecord.scraped_at.kind = "empty"
                \/ /\ StoredRecord.scraped_at.kind \in {"naive", "z"}
                   /\ now - StoredRecord.scraped_at.t <= default_ttl
    /\ last.op = "get" /\ HasRecord /\ StoredRecord.scraped_at.kind \in {"naive", "z"}
          /\ now - StoredRecord.scraped_at.t > default_ttl => last.ret = None
    /\ last.op = "get" /\ last.io = "ok" /\ HasRecord /\ StoredRecord.scraped_at.kind = "empty"
          => last.ret # None

\* C3 witness: a get finds the file of an expired record and returns None
C3_Witness ==
    /\ last.op = "get" /\ last.io = "ok"
    /\ HasRecord
    /\ StoredRecord.scraped_at.kind = "naive"
    /\ now - StoredRecord.scraped_at.t > default_ttl
    /\ last.ret = None

C24_GetFrame ==
    [][/\ last'.op = "get" => files' = files
       /\ files' # files => last'.op \in {"set", "damage"}]_vars

\* C24 witness: at the ttl boundary a get has hit the record set at hour 0,
\* and the file still holds that record with its scraped_at of hour 0
C24_Witness ==
    /\ last.op = "get" /\ last.ret # None
    /\ now = default_ttl
    /\ arg.result.scraped_at = Naive(0)
    /\ LastKey \in DOMAIN files
    /\ files[LastKey] = JsonFile(to_dict(arg.result))

(***************************************************************************)
(* SpecKey: _cache_key as a function of the cache identity.  Init draws    *)
(* two identities; the action computes both keys.                          *)
(***************************************************************************)
AB == <<(<<"a">>), (<<"b">>)>>

KeySources == {<<"a">>, <<"b">>}

\* "|" and "=" are ordinary characters of a url's query string
KeyUrls == {<<"u">>, <<"u", "|", "k", "=", "v">>}

\* keyword arguments in the order the caller wrote them
KeyKwargs == {<<>>, <<KV>>, <<AB>>, <<KV, AB>>, <<AB, KV>>}

KeyIdentities == [source_id : KeySources, url : KeyUrls, kwargs : KeyKwargs]

KeyInit ==
    /\ CacheIdle
    /\ RegistryIdle
    /\ ScrapeIdle
    /\ arg \in [first : KeyIdentities, second : KeyIdentities]
    /\ out = None

ComputeKeys ==
    /\ out = None
    /\ out' = <<cache_key(arg.first.source_id, arg.first.url, arg.first.kwargs),
                cache_key(arg.second.source_id, arg.second.url, arg.second.kwargs)>>
    /\ UNCHANGED <<cacheVars, arg, registryVars, scrapeVars>>

KeyNext == ComputeKeys

SpecKey == KeyInit /\ [][KeyNext]_vars

\* the set of k=v pairs of a call's keyword arguments
Extras(kwargs) == {kwargs[i] : i \in DOMAIN kwargs}

SameIdentity(i, j) ==
    i.source_id = j.source_id /\ i.url = j.url /\ Extras(i.kwargs) = Extras(j.kwargs)

\* C8 as stated: two identities get the same cache key if and only if they
\* have the same source_id, the same url and the same set of extras.
C8_Original ==
    out # None => (out[1] = out[2] <=> SameIdentity(arg.first, arg.second))

(***************************************************************************)
(* SpecDetect: detect_ota as a function of the url                         *)
(***************************************************************************)
UrlAtoms ==
    {"https://www.", "example.com", "/besttour", "booking.", "google.com",
     "/travel/flights", "besttour.com.tw", "liontravel.com", "lifetour.com.tw",
     "settour.com.tw", "tigerairtw.com", "trip.com", "agoda.com", "eztravel.com.tw",
     "booking.com"}

MaxUrlAtoms == 2

SampleUrls == UNION {[1..n -> UrlAtoms] : n \in 0..MaxUrlAtoms}

DetectInit ==
    /\ CacheIdle
    /\ RegistryIdle
    /\ ScrapeIdle
    /\ arg \in SampleUrls
    /\ out = None

Detect ==
    /\ out = None
    /\ out' = [url |-> arg, ret |-> detect_ota(arg)]
    /\ UNCHANGED <<cacheVars, arg, registryVars, scrapeVars>>

DetectNext == Detect

SpecDetect == DetectInit /\ [][DetectNext]_vars

\* the places of _URL_PATTERNS whose pattern matches the url
Matching(url) == {i \in DOMAIN URL_PATTERNS : re_search(URL_PATTERNS[i].pattern, url)}

\* C9: detect_ota returns the source id of the first pair in list order whose
\* pattern matches the url, and None when no pattern matches.
C9_FirstMatch ==
    out # None =>
        IF Matching(out.url) = {} THEN out.ret = None
        ELSE \E i \in Matching(out.url) :
                /\ \A j \in Matching(out.url) : i <= j
                /\ out.ret = Some(URL_PATTERNS[i].source_id)

\* C9 witness: a url that two patterns match has got the id of the earlier one
C9_Witness ==
    /\ out # None
    /\ Cardinality(Matching(out.url)) = 2
    /\ out.ret = Some("trip")

(***************************************************************************)
(* SpecRegistry: any sequence of get_parser calls                          *)
(***************************************************************************)
RegistryInit == CacheIdle /\ PureIdle /\ RegistryIdle /\ ScrapeIdle

RegistryNext == \E source_id \in RequestedIds : GetParser(source_id)

SpecRegistry == RegistryInit /\ [][RegistryNext]_vars

\* C10: all successful get_parser calls with the same source_id return the
\* identical instance, and a parser is constructed at most once per source_id.
C10_Memoized ==
    \A s \in RequestedIds :
        /\ Cardinality(returned[s]) <= 1
        /\ constructed[s] <= 1
        /\ s \in DOMAIN parser_cache => returned[s] = {parser_cache[s]}

\* C10 witness: a second call for a source id was served from the memo
C10_Witness ==
    /\ out # None
    /\ out.memo
    /\ out.raised = ""
    /\ returned[out.source_id] = {out.value[1]}
    /\ constructed[out.source_id] = 1

\* the ids get_available_parsers() returns
Available == {get_available_parsers[i] : i \in DOMAIN get_available_parsers}

\* C11: get_parser for a source id without a registered parser raises
\* ValueError, the message lists exactly the ids of get_available_parsers(),
\* and the failed lookup leaves the parser memo as it was.
C11_UnknownSource ==
    /\ [](out # None /\ out.source_id \notin Available
            => /\ out.raised = "ValueError"
               /\ out.message = get_available_parsers
               /\ out.source_id \notin DOMAIN parser_cache)
    /\ [][out'.raised # "" => parser_cache' = parser_cache]_vars

\* C11 witness: the lookup of "booking", which the url patterns name, has
\* failed while the memo holds a parser
C11_Witness ==
    /\ out # None
    /\ out.source_id = "booking"
    /\ out.raised = "ValueError"
    /\ DOMAIN parser_cache = {"agoda"}

\* C12: for every id in get_available_parsers(), get_parser succeeds and
\* returns a parser whose source_id attribute is that id.
C12_AllSources ==
    out # None /\ out.source_id \in Available
        => /\ out.raised = ""
           /\ out.value # None
           /\ out.value[1].source_id = out.source_id

\* C12 witness: every available id has been asked for and has its parser
C12_Witness ==
    /\ out # None
    /\ out.raised = ""
    /\ DOMAIN parser_cache = Available
    /\ \A sid \in Available : parser_cache[sid].source_id = sid

(***************************************************************************)
(* SpecResolve: the caller resolves a url to a source id with detect_ota   *)
(* and asks get_parser for the parser of that id                           *)
(***************************************************************************)
Resolve ==
    /\ detect_ota(arg) # None
    /\ GetParser(detect_ota(arg)[1])

ResolveNext == Resolve

SpecResolve == DetectInit /\ [][ResolveNext]_vars

\* C29 as stated: the two tables of the registry agree.  For every url for
\* which detect_ota returns a source id, that id is in
\* get_available_parsers() and get_parser of it returns a parser and does
\* not raise.
C29_Original ==
    out # None =>
        /\ out.source_id \in Available
        /\ out.raised = "" /\ out.value # None

(***************************************************************************)
(* SpecNavigate: navigate_with_retry called with any max_retries           *)
(***************************************************************************)
MaxRetries == 4

BackoffBases == {2, 3}

NavigateInit == CacheIdle /\ PureIdle /\ RegistryIdle /\ ScrapeIdle

NavCall ==
    /\ nav.pc = "idle"
    /\ \E max_retries \in 0..MaxRetries, backoff_base \in BackoffBases :
          nav' = NavStart(max_retries, backoff_base)
    /\ UNCHANGED <<cacheVars, pureVars, registryVars, task, prev>>

NavReturn ==
    /\ nav.pc = "returned"
    /\ nav' = NavIdle
    /\ UNCHANGED <<cacheVars, pureVars, registryVars, task, prev>>

NavigateNext == NavCall \/ NavGoto \/ NavSleep \/ NavReturn

SpecNavigate == NavigateInit /\ [][NavigateNext]_vars

\* an awaited page.goto ends (it has a timeout) and so does asyncio.sleep
FairSpecNavigate == SpecNavigate /\ WF_vars(NavGoto) /\ WF_vars(NavSleep)

SomeGotoSucceeded == \E i \in DOMAIN nav.gotos : nav.gotos[i].ok

\* C6: navigate_with_retry always ends, with a boolean and without raising,
\* for every max_retries >= 0 and whatever page.goto raises: True if and only
\* if some page.goto call succeeded; with max_retries = 0 it returns False
\* without a page.goto.
C6_ReturnsBoolean ==
    /\ [](nav.pc = "returned" =>
            /\ nav.ret.raised = ""
            /\ nav.ret.value \in {Some(TRUE), Some(FALSE)}
            /\ nav.ret.value = Some(TRUE) <=> SomeGotoSucceeded
            /\ nav.max_retries = 0 => nav.gotos = <<>> /\ nav.ret.value = Some(FALSE))
    /\ (nav.pc \in {"goto", "sleep"} ~> nav.pc = "returned")

\* C6 witness: every page.goto of a call with max_retries = 2 raised, and
\* the call returned False
C6_Witness ==
    /\ nav.pc = "returned"
    /\ nav.max_retries = 2
    /\ Len(nav.gotos) = 4
    /\ nav.ret = Returned(Some(FALSE))

\* C26: navigate_with_retry backs off exponentially.  The waits of a call are
\* backoff_base, backoff_base^2, ... in this order (2 s then 4 s with the
\* defaults), one after each attempt that failed both strategies except the
\* last one allowed: the call waits max_retries - 1 times when every attempt
\* fails, and does not wait after the final failed attempt or after a success.
C26_Backoff ==
    LET failed == {i \in DOMAIN nav.gotos :
                      nav.gotos[i].strategy = "domcontentloaded" /\ ~nav.gotos[i].ok}
        waits == nav.sleeps
    IN  /\ \A a \in DOMAIN waits :
              waits[a] = IF a = 1 THEN nav.backoff_base ELSE waits[a - 1] * nav.backoff_base
        /\ nav.backoff_base = backoff_base_default =>
              \A a \in DOMAIN waits : a <= 2 => waits[a] = <<2, 4>>[a]
        /\ nav.pc = "sleep" => Len(waits) = Cardinality(failed)
        /\ nav.pc = "goto" => Len(waits) = Cardinality(failed)
        /\ nav.pc = "returned" /\ nav.ret.value = Some(TRUE) =>
              Len(waits) = Cardinality(failed)
        /\ nav.pc = "returned" /\ nav.ret.value = Some(FALSE) /\ nav.max_retries > 0 =>
              /\ Cardinality(failed) = nav.max_retries
              /\ Len(waits) = nav.max_retries - 1
        /\ nav.max_retries = 0 => waits = <<>>

\* C26 witness: with the defaults every attempt failed; the call waited 2 s
\* and 4 s and returned False after the sixth page.goto without a third wait
C26_Witness ==
    /\ nav.pc = "returned" /\ nav.ret = Returned(Some(FALSE))
    /\ nav.max_retries = max_retries_default /\ nav.backoff_base = backoff_base_default
    /\ nav.sleeps = <<2, 4>>
    /\ Len(nav.gotos) = 6

\* C27: navigate_with_retry makes at most max_retries attempts; in each it
\* asks for "networkidle" first and for "domcontentloaded" second, the second
\* only after the first has failed; it calls page.goto no more once a call has
\* succeeded.  So there are at most 2 * max_retries page.goto calls, and
\* exactly that many when every call fails.
C27_StrategyOrder ==
    LET calls == nav.gotos
    IN  /\ Len(calls) <= 2 * nav.max_retries
        /\ \A i \in DOMAIN calls :
              /\ calls[i].strategy = IF i % 2 = 1 THEN "networkidle" ELSE "domcontentloaded"
              /\ i < Len(calls) => ~calls[i].ok
        /\ (\E i \in DOMAIN calls : calls[i].ok) => nav.pc = "returned"
        /\ nav.pc = "returned" /\ (\A i \in DOMAIN calls : ~calls[i].ok) =>
              Len(calls) = 2 * nav.max_retries
        /\ nav.pc \in {"goto", "sleep"} => nav.attempt < nav.max_retries

\* C27 witness: the first attempt failed both ways, the second failed with
\* "networkidle" and succeeded with "domcontentloaded"; the call returned True
\* after four page.goto calls out of the six allowed
C27_Witness ==
    /\ nav.pc = "returned" /\ nav.ret = Returned(Some(TRUE))
    /\ nav.max_retries = max_retries_default
    /\ Len(nav.gotos) = 4
    /\ nav.gotos[4] = [strategy |-> "domcontentloaded", ok |-> TRUE]
    /\ nav.gotos[3] = [strategy |-> "networkidle", ok |-> FALSE]

(***************************************************************************)
(* SpecScrape: one parser's scrape called again and again                  *)
(***************************************************************************)
ScrapeInit == CacheIdle /\ PureIdle /\ RegistryIdle /\ ScrapeIdle

ScrapeNext ==
    \/ ScrapeCall
    \/ NavGoto
    \/ NavSleep
    \/ ScrapeNavigated
    \/ ScrapeSettle
    \/ ScrapePrepare
    \/ ScrapeTitle
    \/ ScrapeText
    \/ ScrapeElements
    \/ ScrapeLinks
    \/ ScrapeFinish
    \/ ScrapeReturn
    \/ Tick

SpecScrape == ScrapeInit /\ [][ScrapeNext]_vars

\* the running call has asked the browser to navigate
Navigates == nav.gotos # <<>>

\* C1 as stated: a scrape with use_cache that follows a scrape of the same url
\* and extras whose navigation succeeded, within the ttl of that first
\* scrape, performs no page.goto.  The first scrape here is one in which
\* no browser call failed and parse_raw_text returned, and the second one
\* in which the cache directory can be read.
C1_Original ==
    /\ task.pc # "idle" /\ task.use_cache /\ task.read_ok
    /\ prev.valid /\ prev.use_cache /\ prev.navigated
    /\ {"settle", "prepare", "title", "text", "elements", "links", "parse"} \subseteq prev.steps
    /\ prev.url = task.url /\ prev.kwargs = task.kwargs
    /\ task.started - prev.scraped_at.t <= default_ttl
    => ~Navigates

\* C4: when navigate_with_retry returns False, scrape returns a result with
\* success = false and exactly one error, and no later step has run: no
\* settle wait, prepare_page, extraction, parse or cache write.  So every
\* result scrape returns with success = false has an error, and no cache
\* file holds such a result.
C4_NavigationFailure ==
    /\ task.pc # "idle" /\ nav.pc = "returned" /\ nav.ret = Returned(Some(FALSE))
          /\ ~(task.pc = "navigate")
          => /\ task.pc = "done"
             /\ task.ret.raised = ""
             /\ task.ret.value # None
             /\ task.ret.value[1].success = FALSE
             /\ Len(task.ret.value[1].errors) = 1
             /\ task.steps \subseteq {"cache_get"}
             /\ task.ret.value[1].title = "" /\ task.ret.value[1].raw_text = ""
    /\ task.pc = "done" /\ task.ret.value # None /\ ~task.ret.value[1].success
          => task.ret.value[1].errors # <<>>
    /\ \A k \in DOMAIN files : files[k].kind = "json" => files[k].data.success

\* C4 witness: scrape has returned after six failed page.goto calls
C4_Witness ==
    /\ task.pc = "done"
    /\ Len(nav.gotos) = 6
    /\ ~SomeGotoSucceeded
    /\ task.ret.value # None
    /\ ~task.ret.value[1].success

\* C5 as stated: scrape never raises to its caller, whatever the browser,
\* the parser and the enrichment do.
C5_Original == task.pc = "done" => task.ret.raised = ""

C25_Original ==
    task.pc = "done" /\ "merge" \in task.steps =>
        /\ task.ret.raised = ""
        /\ task.ret.value # None
        /\ LET r == task.ret.value[1]
           IN  /\ {"baggage_included", "baggage_kg"} \subseteq DOMAIN r
               /\ "area_type" \in DOMAIN r.hotel
               /\ r.raw_text # "" =>
                     /\ r.baggage_included = extract_baggage_info(r.raw_text).included
                     /\ r.baggage_kg = extract_baggage_info(r.raw_text).kg

(***************************************************************************)
(* SpecSchema: the pure operations of schema.py and of the BestTour flight *)
(* parser.  Init draws one input, a flight segment, a result, a dict or a  *)
(* page text; each action applies one operation to the input of its kind.  *)
(***************************************************************************)
SampleSegments ==
    [flight_number : {"", "MM620"}, airline : {"", "Peach"}, departure_code : {"", "TPE"},
     arrival_code : {"", "KIX"}, date : {"", "2026-02-13"}]

\* dicts for from_dict: the top level holds the fields of a result, or only a
\* source id; `extracted` is missing, empty, holds a hotel only, or holds the
\* fields of another result
SampleDicts ==
    LET top == [ScrapeResult EXCEPT
                   !.source_id = <<"a">>,
                   !.hotel = [HotelInfo EXCEPT !.name = "top"],
                   !.price = [PriceInfo EXCEPT !.per_person = Some(25000)],
                   !.inclusions = <<"top">>,
                   !.flight = [FlightInfo EXCEPT !.outbound.flight_number = "MM620"],
                   !.date_pricing = "2026-02-13" :> [DatePricing EXCEPT !.price = Some(900)],
                   !.itinerary = <<[ItineraryDay EXCEPT !.day = 1]>>]
        wrapped == [ScrapeResult EXCEPT
                   !.hotel = [HotelInfo EXCEPT !.name = "wrapped"],
                   !.price = [PriceInfo EXCEPT !.total = Some(50000)],
                   !.flight = [FlightInfo EXCEPT !.return_.flight_number = "MM623"],
                   !.itinerary = <<[ItineraryDay EXCEPT !.day = 2, !.is_free = TRUE]>>]
        tops == {to_dict(top), [source_id |-> <<"a">>]}
        wrappers == {EmptyDict, [hotel |-> [name |-> "wrapped"]],
                     to_legacy_dict(wrapped).extracted}
    IN  tops \cup {("extracted" :> w) @@ t : t \in tops, w \in wrappers}

\* page texts, line by line: one or two flight blocks written as BestTour
\* writes them, the first one being the text of the end-to-end scenario; the
\* marker padded with blanks; airport lines without a code, with a lower-case
\* or a four-letter one; a block cut short; a line before the block
SampleTexts ==
    LET airport(name, code) == <<name, "(">> \o code \o <<")">>
        block(marker, number, dep, arr) ==
            <<marker, <<"2026/02/13", "(", "wu", ")">>, <<number>>, <<"letaohangkong">>,
              dep, <<"07:10">>, <<"->">>, arr, <<"11:05">>>>
        TPE == airport("taoyuan", <<"T", "P", "E">>)
        NRT == airport("chengtian", <<"N", "R", "T">>)
        scenario == block(<<"qucheng">>, "MM620", TPE, NRT)
        back == block(<<"huicheng">>, "MM627", NRT, TPE)
        blocks == {scenario, back,
                   block(<<"qucheng">>, "MM999", NRT, TPE),
                   block(<<" ", "qucheng", "\t">>, "MM620", <<" ">> \o TPE, NRT)}
        odd == {block(<<"qucheng">>, "MM620", dep, arr) :
                   dep \in {<<"taoyuan">>,
                            airport("taoyuan", <<"t", "p", "e">>) \o <<"(", "A", "B", "C", ")">>,
                            airport("taoyuan", <<"T", "P", "E", "X">>)},
                   arr \in {NRT, <<>>}}
        whole == blocks \cup odd \cup {a \o b : a \in blocks, b \in blocks}
    IN  whole \cup {SubSeq(t, 1, Len(t) - 1) : t \in whole}
              \cup {<<<<"jiaotongfangshi">>>> \o t : t \in blocks}

SchemaInputs ==
    {[kind |-> "segment", v |-> seg] : seg \in SampleSegments}
    \cup {[kind |-> "result", v |-> r] : r \in SampleResults}
    \cup {[kind |-> "dict", v |-> d] : d \in SampleDicts}
    \cup {[kind |-> "text", v |-> t] : t \in SampleTexts}
    \cup LET leg(date) == [FlightSegment EXCEPT !.flight_number = "MM620",
                                                !.departure_code = "TPE", !.date = date]
             legs == {FlightSegment, leg(""), leg("2026-02-13")}
             priced(a, b) == ("2026-02-13" :> [DatePricing EXCEPT !.price = a])
                             @@ ("2026-02-14" :> [DatePricing EXCEPT !.price = b])
         IN  {[kind |-> "validate",
               v |-> [ScrapeResult EXCEPT
                        !.source_id = id[1], !.url = id[1], !.scraped_at = id[2],
                        !.title = id[3],
                        !.flight = [outbound |-> o, return_ |-> rt],
                        !.hotel = h, !.price = [PriceInfo EXCEPT !.per_person = pp],
                        !.date_pricing = dp]] :
                id \in {<< <<>>, NoTimestamp, "" >>, << <<"a">>, NoTimestamp, "T" >>,
                        << <<"a">>, Naive(0), "" >>, << <<"a">>, Naive(0), "T" >>},
                o \in legs, rt \in legs,
                h \in {HotelInfo, [HotelInfo EXCEPT !.name = "H"],
                       [HotelInfo EXCEPT !.names = <<"H1", "H2">>]},
                pp \in {None, Some(4999), Some(5000)},
                dp \in {EmptyDict, priced(None, Some(1000)), priced(Some(999), Some(999))}}

SchemaInit ==
    /\ CacheIdle
    /\ RegistryIdle
    /\ ScrapeIdle
    /\ arg \in SchemaInputs
    /\ out = None

\* the operation op applied to the input, with what it returned
Applied(op, ret) ==
    /\ out = None
    /\ out' = [op |-> op, ret |-> ret]
    /\ UNCHANGED <<cacheVars, arg, registryVars, scrapeVars>>

IsPopulated ==
    /\ arg.kind = "segment"
    /\ Applied("is_populated", SegmentIsPopulated(arg.v))

\* to_legacy_dict, from_dict of it, and to_legacy_dict of that
LegacyRoundTrip ==
    /\ arg.kind = "result"
    /\ LET first == to_legacy_dict(arg.v)
           back  == from_dict(first)
       IN  Applied("legacy_round_trip",
                   [first |-> first, back |-> back, second |-> to_legacy_dict(back)])

FromDict ==
    /\ arg.kind = "dict"
    /\ Applied("from_dict", from_dict(arg.v))

\* the flight of the input written by each serializer, and read back from
\* either spelling of the return key
FlightRoundTrip ==
    /\ arg.kind \in {"segment", "result"}
    /\ LET f == IF arg.kind = "segment"
                THEN [outbound |-> FlightSegment, return_ |-> arg.v]
                ELSE arg.v.flight
           r == [ScrapeResult EXCEPT !.flight = f]
       IN  Applied("flight_round_trip",
                   [flight     |-> f,
                    written    |-> <<FlightInfoToDict(f), to_dict(r).flight,
                                     to_legacy_dict(r).extracted.flight>>,
                    back       |-> FlightInfoFromDict(FlightInfoToDict(f)),
                    underscore |-> FlightInfoFromDict([outbound |-> f.outbound,
                                                       return_  |-> f.return_])])

Validate ==
    /\ arg.kind = "validate"
    /\ Applied("validate_result", validate_result(arg.v))

\* the page text is its lines joined by newlines
ParseFlights ==
    /\ arg.kind = "text"
    /\ Applied("parse_flights", parse_flights(Join(arg.v, "\n")))

\* the result written in the current shape and in the legacy shape
Serialize ==
    /\ arg.kind = "result"
    /\ Applied("serialize", [current |-> to_dict(arg.v), legacy |-> to_legacy_dict(arg.v)])

SchemaNext ==
    \/ Validate
    \/ Serialize
    \/ ParseFlights
    \/ IsPopulated
    \/ LegacyRoundTrip
    \/ FromDict
    \/ FlightRoundTrip

SpecSchema == SchemaInit /\ [][SchemaNext]_vars

\* C13: FlightSegment.is_populated is true if and only if flight_number is
\* non-empty and departure_code or arrival_code is non-empty, whatever the
\* other fields hold; in every other case it is false.
C13_IsPopulated ==
    out # None /\ out.op = "is_populated" =>
        /\ out.ret \in BOOLEAN
        /\ arg.v.flight_number = "" => out.ret = FALSE
        /\ arg.v.departure_code = "" /\ arg.v.arrival_code = "" => out.ret = FALSE
        /\ arg.v.flight_number # "" /\ arg.v.departure_code # "" => out.ret = TRUE
        /\ arg.v.flight_number # "" /\ arg.v.arrival_code # "" => out.ret = TRUE

\* C13 witness: a segment with a flight number and only an arrival code is
\* populated although airline and date are empty
C13_Witness ==
    /\ out # None /\ out.op = "is_populated"
    /\ arg.v.flight_number # "" /\ arg.v.departure_code = "" /\ arg.v.arrival_code # ""
    /\ arg.v.airline = "" /\ arg.v.date = ""
    /\ out.ret = TRUE

\* the fields of a result that its legacy dict holds
LegacyFields == StructuredFields \cup {"url", "scraped_at", "title", "raw_text"}

\* C14 as stated: for every result r, to_legacy_dict(from_dict(to_legacy_dict(r)))
\* equals to_legacy_dict(r), and from_dict recovers every field the legacy
\* dict holds with the value r had.
C14_Original ==
    out # None /\ out.op = "legacy_round_trip" =>
        /\ out.ret.second = out.ret.first
        /\ \A f \in LegacyFields : out.ret.back[f] = arg.v[f]

\* C14 amended: the legacy round trip is idempotent for every result whose
\* date_pricing entries have a non-empty availability, and from_dict
\* recovers every field the legacy dict holds with the value r had when in
\* addition every date_pricing entry has its key as date; of any result, all
\* of these fields but date_pricing are recovered.
C14_LegacyRoundTrip ==
    out # None /\ out.op = "legacy_round_trip" =>
        /\ (\A k \in DOMAIN arg.v.date_pricing : arg.v.date_pricing[k].availability # "")
              => out.ret.second = out.ret.first
        /\ KeyedByDate(arg.v) => \A f \in LegacyFields : out.ret.back[f] = arg.v[f]
        /\ \A f \in LegacyFields \ {"date_pricing"} : out.ret.back[f] = arg.v[f]

\* C14 witness: a result with a return segment, a priced date and two
\* itinerary days has come back from its legacy dict
C14_Witness ==
    /\ out # None /\ out.op = "legacy_round_trip"
    /\ arg.v.flight.return_.flight_number = "MM623"
    /\ DOMAIN arg.v.date_pricing # {} /\ KeyedByDate(arg.v)
    /\ Len(arg.v.itinerary) = 2
    /\ out.ret.back.itinerary = arg.v.itinerary
    /\ out.ret.second = out.ret.first

\* C15: from_dict reads every structured field from `extracted` if and only
\* if the input has a non-empty `extracted`, and from the top-level keys
\* otherwise; it never takes some fields from one and some from the other.
\* So the result has the structured fields of the dict made of the one
\* source alone, and a field the source lacks has its default.
C15_ShapeDetection ==
    out # None /\ out.op = "from_dict" =>
        LET legacy == "extracted" \in DOMAIN arg.v /\ arg.v.extracted # EmptyDict
            source == IF legacy THEN arg.v.extracted ELSE arg.v
            alone  == [k \in DOMAIN source \ {"extracted"} |-> source[k]]
        IN  /\ \A f \in StructuredFields : out.ret[f] = from_dict(alone)[f]
            /\ \A f \in StructuredFields \ DOMAIN source : out.ret[f] = ScrapeResult[f]
            /\ out.ret.hotel.name = Get(Get(source, "hotel", EmptyDict), "name", "")
            /\ out.ret.inclusions = Get(source, "inclusions", <<>>)
            /\ Len(out.ret.itinerary) = Len(Get(source, "itinerary", <<>>))

\* C15 witness: a dict with structured fields at the top level and a hotel
\* alone in `extracted` gives the wrapped hotel and no flight, price or
\* itinerary
C15_Witness ==
    /\ out # None /\ out.op = "from_dict"
    /\ "extracted" \in DOMAIN arg.v /\ DOMAIN arg.v.extracted = {"hotel"}
    /\ "hotel" \in DOMAIN arg.v /\ arg.v.hotel.name = "top"
    /\ out.ret.hotel.name = "wrapped"
    /\ out.ret.price = PriceInfo /\ out.ret.itinerary = <<>>

\* C16: FlightInfo.to_dict, ScrapeResult.to_dict and to_legacy_dict write
\* the return segment under the key "return" and never under "return_";
\* FlightInfo.from_dict reads it from either key, so that
\* from_dict(to_dict(f)) has the outbound and return segments of f.
C16_ReturnRename ==
    out # None /\ out.op = "flight_round_trip" =>
        /\ \A i \in DOMAIN out.ret.written :
              /\ DOMAIN out.ret.written[i] = {"outbound", "return"}
              /\ out.ret.written[i]["return"] = out.ret.flight.return_
              /\ out.ret.written[i].outbound = out.ret.flight.outbound
        /\ out.ret.back = out.ret.flight
        /\ out.ret.underscore = out.ret.flight

\* C16 witness: a flight whose return segment is filled in and differs from
\* the outbound one has come back from its dict
C16_Witness ==
    /\ out # None /\ out.op = "flight_round_trip"
    /\ out.ret.flight.return_.flight_number = "MM620"
    /\ out.ret.flight.return_.arrival_code = "KIX"
    /\ out.ret.flight.return_ # out.ret.flight.outbound
    /\ out.ret.back.return_ = out.ret.flight.return_

\* C17: validate_result returns exactly one warning for each condition that
\* holds and none for one that does not: missing source_id, url, scraped_at,
\* title; no flight segment populated; outbound populated without date;
\* return populated without date; no hotel data; no price data; per_person
\* set and below 5000; each date_pricing entry with a price below 1000.  Of
\* an empty result the warnings include missing source_id, missing url, no
\* flight data, no hotel data and no price data.
C17_OneWarningEach ==
    out # None /\ out.op = "validate_result" =>
        LET r == arg.v
            Count(w) == Cardinality({i \in DOMAIN out.ret : out.ret[i] = w})
            Once(c, text) == Count(<<text, "">>) = IF c THEN 1 ELSE 0
            Filled(seg) == seg.flight_number # ""
                           /\ (seg.departure_code # "" \/ seg.arrival_code # "")
            low == {k \in DOMAIN r.date_pricing :
                       r.date_pricing[k].price # None /\ r.date_pricing[k].price[1] < 1000}
            said == {out.ret[i] : i \in DOMAIN out.ret}
        IN  /\ Once(r.source_id = <<>>, "Missing source_id")
            /\ Once(r.url = <<>>, "Missing url")
            /\ Once(r.scraped_at = NoTimestamp, "Missing scraped_at timestamp")
            /\ Once(r.title = "", "Missing page title")
            /\ Once(~Filled(r.flight.outbound) /\ ~Filled(r.flight.return_),
                    "No flight data extracted")
            /\ Once(Filled(r.flight.outbound) /\ r.flight.outbound.date = "",
                    "Outbound flight missing date")
            /\ Once(Filled(r.flight.return_) /\ r.flight.return_.date = "",
                    "Return flight missing date")
            /\ Once(r.hotel.name = "" /\ r.hotel.names = <<>>, "No hotel data extracted")
            /\ Once(r.price.per_person = None, "No price data extracted")
            /\ Once(r.price.per_person # None /\ r.price.per_person[1] < 5000,
                    "Price suspiciously low")
            /\ \A k \in DOMAIN r.date_pricing :
                  Count(<<"Date pricing suspiciously low", k>>) = IF k \in low THEN 1 ELSE 0
            /\ Cardinality(said) = Len(out.ret)
            /\ \A w \in said : w[2] # "" => w[1] = "Date pricing suspiciously low" /\ w[2] \in low
            /\ r.source_id = <<>> /\ r.flight = FlightInfo /\ r.hotel = HotelInfo
                  /\ r.price = PriceInfo
                  => {<<"Missing source_id", "">>, <<"Missing url", "">>,
                      <<"No flight data extracted", "">>, <<"No hotel data extracted", "">>,
                      <<"No price data extracted", "">>} \subseteq said

\* C17 witness: a result with a dated outbound and an undated return
\* segment, a low per_person price and two low date prices has got exactly
\* the four warnings of these
C17_Witness ==
    /\ out # None /\ out.op = "validate_result"
    /\ arg.v.source_id # <<>> /\ arg.v.scraped_at # NoTimestamp /\ arg.v.title # ""
    /\ arg.v.hotel.name = "H"
    /\ arg.v.flight.outbound.date # "" /\ arg.v.flight.return_.flight_number # ""
    /\ arg.v.flight.return_.date = ""
    /\ arg.v.price.per_person = Some(4999)
    /\ Len(out.ret) = 4
    /\ out.ret[1] = <<"Return flight missing date", "">>

\* C28 as stated: to_legacy_dict emits no key for a numeric or string field
\* that is None or empty, in flight, hotel, price, dates, date_pricing and
\* itinerary alike, and to_dict keeps every field of every sub-entity.
C28_Original ==
    out # None /\ out.op = "serialize" =>
        LET x == out.ret.legacy.extracted
            c == out.ret.current
            Sparse(d) ==
                \A k \in DOMAIN d :
                    IF k \in {"star_rating", "per_person", "total", "duration_days",
                              "price", "seats_remaining"}
                    THEN d[k] # None
                    ELSE k \in FlightSegmentFields \cup
                               {"name", "currency", "departure_date", "availability",
                                "notes", "content"} => d[k] # ""
        IN  /\ Sparse(x.flight.outbound) /\ Sparse(x.flight["return"])
            /\ Sparse(x.hotel) /\ Sparse(x.price) /\ Sparse(x.dates)
            /\ \A k \in DOMAIN x.date_pricing : Sparse(x.date_pricing[k])
            /\ "itinerary" \in DOMAIN x =>
                  \A i \in DOMAIN x.itinerary : Sparse(x.itinerary[i])
            /\ DOMAIN c.flight.outbound = FlightSegmentFields
            /\ DOMAIN c.flight["return"] = FlightSegmentFields
            /\ DOMAIN c.hotel = DOMAIN HotelInfo
            /\ DOMAIN c.price = DOMAIN PriceInfo
            /\ DOMAIN c.dates = DOMAIN DatesInfo
            /\ \A k \in DOMAIN c.date_pricing : DOMAIN c.date_pricing[k] = DatePricingFields
            /\ \A i \in DOMAIN c.itinerary : DOMAIN c.itinerary[i] = ItineraryDayFields

\* C28 amended: to_legacy_dict drops the None fields of price and dates, and
\* of every date_pricing entry the date and each field that is None or "";
\* it leaves out the itinerary key when the itinerary is empty.  It keeps
\* every field of both flight segments, of the hotel and of every itinerary
\* day, None and "" included, and the strings of price and dates.  to_dict
\* keeps every field of flight, hotel, price and dates; of a date_pricing
\* entry it drops each field that is None or "", and of an itinerary day
\* that is neither free nor guided each field that is 0, "" or False.
C28_Serialization ==
    out # None /\ out.op = "serialize" =>
        LET r == arg.v
            x == out.ret.legacy.extracted
            c == out.ret.current
            Filled(e) == {k \in DatePricingFields :
                             IF k \in {"price", "seats_remaining"} THEN e[k] # None
                             ELSE e[k] # ""}
            Same(d, e, keys) == DOMAIN d = keys /\ \A k \in keys : d[k] = e[k]
        IN  /\ Same(x.flight.outbound, r.flight.outbound, FlightSegmentFields)
            /\ Same(x.flight["return"], r.flight.return_, FlightSegmentFields)
            /\ x.hotel = r.hotel
            /\ Same(x.price, r.price,
                    {"currency"} \cup {k \in {"per_person", "total"} : r.price[k] # None})
            /\ Same(x.dates, r.dates,
                    {"departure_date"} \cup {k \in {"duration_days"} : r.dates[k] # None})
            /\ DOMAIN x.date_pricing = DOMAIN r.date_pricing
            /\ \A k \in DOMAIN r.date_pricing :
                  Same(x.date_pricing[k], r.date_pricing[k],
                       Filled(r.date_pricing[k]) \ {"date"})
            /\ "itinerary" \in DOMAIN x <=> r.itinerary # <<>>
            /\ r.itinerary # <<>> => x.itinerary = r.itinerary
            /\ Same(c.flight.outbound, r.flight.outbound, FlightSegmentFields)
            /\ Same(c.flight["return"], r.flight.return_, FlightSegmentFields)
            /\ c.hotel = r.hotel /\ c.price = r.price /\ c.dates = r.dates
            /\ DOMAIN c.date_pricing = DOMAIN r.date_pricing
            /\ \A k \in DOMAIN r.date_pricing :
                  Same(c.date_pricing[k], r.date_pricing[k], Filled(r.date_pricing[k]))
            /\ Len(c.itinerary) = Len(r.itinerary)
            /\ \A i \in DOMAIN r.itinerary :
                  LET day == r.itinerary[i]
                  IN  Same(c.itinerary[i], day,
                           IF day.is_free \/ day.is_guided THEN ItineraryDayFields
                           ELSE {k \in {"day"} : day.day # 0}
                                \cup {k \in {"content"} : day.content # ""})

\* C28 witness: a result with a date_pricing entry whose availability is ""
\* and an itinerary day of defaults only.  The legacy shape drops the
\* availability and keeps the hotel's star_rating of None and the day's empty
\* content; the current shape drops the availability too and writes the day
\* as an empty dict.
C28_Witness ==
    /\ out # None /\ out.op = "serialize"
    /\ arg.v.itinerary = <<ItineraryDay>>
    /\ "2026-02-13" \in DOMAIN arg.v.date_pricing
    /\ arg.v.date_pricing["2026-02-13"].availability = ""
    /\ "availability" \notin DOMAIN out.ret.legacy.extracted.date_pricing["2026-02-13"]
    /\ out.ret.legacy.extracted.hotel.star_rating = None
    /\ out.ret.legacy.extracted.itinerary[1].content = ""
    /\ "availability" \notin DOMAIN out.ret.current.date_pricing["2026-02-13"]
    /\ out.ret.current.itinerary[1] = EmptyDict

\* C21: BestTourParser.parse_raw_text on a text with a line "qucheng" that is
\* followed by at least 8 more lines fills the outbound segment from the lines
\* at fixed offsets after such a marker (+1 date, +2 flight number, +3 airline,
\* +4 departure airport, +5 departure time, +7 arrival airport, +8 arrival
\* time), each airport code being three capital letters found in parentheses
\* in the airport line; the scenario text gives MM620, TPE, NRT, letaohangkong.
C21_Original ==
    out # None /\ out.op = "parse_flights" =>
        LET lines == arg.v
            o == out.ret.outbound
            markers == {i \in 0..(Len(lines) - 9) : strip(lines[i + 1]) = <<"qucheng">>}
            Coded(code, line) ==
                LET found == {j \in 1..(Len(line) - 4) :
                                 /\ line[j] = "(" /\ line[j + 4] = ")"
                                 /\ \A d \in 1..3 :
                                       line[j + d] \in {"A", "B", "C", "D", "E", "N",
                                                        "P", "R", "T", "X"}}
                IN  /\ code = <<>> <=> found = {}
                    /\ code # <<>> => \E j \in found : code = SubSeq(line, j + 1, j + 3)
        IN  /\ markers # {} =>
                \E i \in markers :
                   /\ o.date = strip(lines[i + 2])
                   /\ o.flight_number = strip(lines[i + 3])
                   /\ o.airline = strip(lines[i + 4])
                   /\ o.departure_airport = strip(lines[i + 5])
                   /\ o.departure_time = strip(lines[i + 6])
                   /\ o.arrival_airport = strip(lines[i + 8])
                   /\ o.arrival_time = strip(lines[i + 9])
                   /\ Coded(o.departure_code, o.departure_airport)
                   /\ Coded(o.arrival_code, o.arrival_airport)
            /\ lines = <<<<"qucheng">>, <<"2026/02/13", "(", "wu", ")">>, <<"MM620">>,
                         <<"letaohangkong">>, <<"taoyuan", "(", "T", "P", "E", ")">>,
                         <<"07:10">>, <<"->">>, <<"chengtian", "(", "N", "R", "T", ")">>,
                         <<"11:05">>>> =>
                   /\ o.flight_number = <<"MM620">>
                   /\ o.departure_code = <<"T", "P", "E">>
                   /\ o.arrival_code = <<"N", "R", "T">>
                   /\ o.airline = <<"letaohangkong">>

(***************************************************************************)
(* SpecServe: scrape called again and again over a cache directory that    *)
(* earlier runs have left files in                                         *)
(***************************************************************************)
ServeInit ==
    /\ PureIdle /\ RegistryIdle /\ ScrapeIdle
    /\ now = 0 /\ last = NoOp
    /\ \E scraped_at \in {NoTimestamp, Naive(0)} :
          files = CacheSet(EmptyDict,
                           [ScrapeResult EXCEPT !.source_id = ScrapeSourceId, !.url = <<"u">>,
                                                !.scraped_at = scraped_at, !.title = "T",
                                                !.warnings = <<Warning("Missing url")>>],
                           <<>>, "ok").files

\* the calls follow each other within the hour
ServeNext ==
    \/ ScrapeCall
    \/ NavGoto
    \/ NavSleep
    \/ ScrapeNavigated
    \/ ScrapeSettle
    \/ ScrapePrepare
    \/ ScrapeTitle
    \/ ScrapeText
    \/ ScrapeElements
    \/ ScrapeLinks
    \/ ScrapeFinish
    \/ ScrapeReturn

SpecServe == ServeInit /\ [][ServeNext]_vars

\* the result carries the provenance warning of the cache
LoadedFromCacheIn(result) ==
    \E i \in DOMAIN result.warnings : result.warnings[i].text = "Loaded from cache"

\* C18: a result returned by scrape carries the "Loaded from cache" warning
\* if and only if it was served from the cache: every result served from the
\* cache has it, and no result of a call that navigated has it.
C18_Provenance ==
    task.pc = "done" /\ task.ret.raised = "" /\ task.ret.value # None =>
        /\ "cache_get" \in task.steps /\ nav.pc = "idle"
              => LoadedFromCacheIn(task.ret.value[1])
        /\ nav.pc = "returned" => ~LoadedFromCacheIn(task.ret.value[1])
        /\ LoadedFromCacheIn(task.ret.value[1]) <=> nav.gotos = <<>> /\ nav.pc = "idle"

\* C18 witness: a call has returned the stored result with its stored
\* warning and the provenance warning, after a call whose navigation failed
\* had returned a result of its own
C18_Witness ==
    /\ task.pc = "done" /\ task.ret.raised = "" /\ task.ret.value # None
    /\ nav.pc = "idle"
    /\ LoadedFromCacheIn(task.ret.value[1])
    /\ Len(task.ret.value[1].warnings) = 2
    /\ prev.valid /\ prev.raised = "" /\ ~prev.navigated /\ prev.scraped_at = Naive(0)
    /\ prev.url = <<"v">>

\* C30: a scrape called with use_cache = false neither reads nor writes the
\* cache.  It makes no cache lookup and no cache write, it navigates even
\* when the directory holds a fresh entry for its source, url and extras, a
\* result it returns is its own and not that entry, and no step of the call
\* changes the directory.
C30_NoCache ==
    /\ [](task.pc # "idle" /\ ~task.use_cache =>
            /\ task.steps \cap {"cache_get", "cache_set"} = {}
            /\ task.pc = "done" =>
                  /\ nav.gotos # <<>>
                  /\ task.ret.value # None =>
                        /\ ~LoadedFromCacheIn(task.ret.value[1])
                        /\ task.ret.value[1].scraped_at = Naive(task.started)
                        /\ \A k \in DOMAIN files :
                              files[k] # JsonFile(to_dict(task.ret.value[1])))
    /\ [][task'.pc # "idle" /\ ~task'.use_cache => files' = files]_vars

\* C30 witness: the directory holds a fresh entry for url u; a call for u
\* with use_cache = false has asked the browser six times in vain and has
\* returned its own failure result, and the entry is still served to a get
C30_Witness ==
    /\ task.pc = "done" /\ ~task.use_cache
    /\ task.url = <<"u">> /\ task.kwargs = <<>>
    /\ CacheGet(files, now, TRUE, ScrapeSourceId, <<"u">>, <<>>).value # None
    /\ Len(nav.gotos) = 6
    /\ task.ret.value # None
    /\ ~task.ret.value[1].success

(***************************************************************************)
(* SpecStore: the four cache operations over the entries of two sources.   *)
(* The identities are those of SpecKey with one choice of extras.          *)
(***************************************************************************)
StoreNext ==
    \E i \in {j \in KeyIdentities : j.kwargs \in {<<>>, <<KV>>}} :
        \/ Set_([ScrapeResult EXCEPT !.source_id = i.source_id, !.url = i.url, !.title = "T"],
                i.kwargs, "ok")
        \/ Get_(i.source_id, i.url, i.kwargs, TRUE)
        \/ Invalidate_(i.source_id, i.url, i.kwargs)
        \/ Clear_(i.source_id)
        \/ Clear_(<<>>)

SpecStore == ScrapeInit /\ [][StoreNext]_vars

\* what get returns for identity i when the directory is fs
Entry(fs, i) == CacheGet(fs, now, TRUE, i.source_id, i.url, i.kwargs).value

\* C19 as stated: clear() removes every entry; clear(source_id) removes only
\* the entries of that source, and get still returns the entries stored
\* for any other source_id.
C19_Original ==
    [][last'.op = "clear" =>
          \A i \in KeyIdentities :
              Entry(files', i) = IF last'.source_id = <<>> \/ i.source_id = last'.source_id
                                 THEN None ELSE Entry(files, i)]_vars

\* C20 as stated: invalidate removes exactly the entry of its identity: get
\* for that identity then returns None, every other identity's entry is
\* unchanged, and nothing is raised, whether or not there was an entry.
C20_Original ==
    [][last'.op = "invalidate" =>
          /\ last'.raised = ""
          /\ \A i \in KeyIdentities :
                Entry(files', i) =
                    IF SameIdentity(i, [source_id |-> last'.source_id, url |-> last'.url,
                                        kwargs |-> last'.kwargs])
                    THEN None ELSE Entry(files, i)]_vars

(***************************************************************************)
(* SpecRace: scrape tasks of one event loop for the same source, url and   *)
(* extras, with use_cache.  A task runs from one await to the next without *)
(* interruption; at an await any other task may run.  task and nav hold    *)
(* one record per task.                                                    *)
(***************************************************************************)
RaceTasks == {"t1", "t2"}

RaceInit ==
    /\ CacheIdle
    /\ PureIdle
    /\ RegistryIdle
    /\ nav = [i \in RaceTasks |-> NavIdle]
    /\ task = [i \in RaceTasks |-> TaskIdle]
    /\ prev = NoPrev

\* task i runs up to its next await, or to the end of scrape
RaceStep(i) ==
    LET t == task[i]
        n == nav[i]
        Becomes(t2, n2, fs) ==
            /\ task' = [task EXCEPT ![i] = t2]
            /\ nav' = [nav EXCEPT ![i] = n2]
            /\ files' = fs
    IN  /\ t.pc # "done"
        /\ CASE t.pc = "idle" ->
                    LET entered == ScrapeEnter(files, now, <<"u">>, TRUE, <<>>, TRUE)
                    IN  Becomes(entered.task, entered.nav, files)
             [] t.pc = "navigate" /\ n.pc = "goto" ->
                    \E ok \in BOOLEAN : Becomes(t, NavGotoStep(n, ok), files)
             [] t.pc = "navigate" /\ n.pc = "sleep" ->
                    Becomes(t, NavSleepStep(n), files)
             [] t.pc = "navigate" /\ n.pc = "returned" ->
                    Becomes(IF n.ret.raised # "" THEN Leave(t, n.ret)
                            ELSE AfterNavigate(t, n.ret.value[1]), n, files)
             [] t.pc = "settle" ->
                    \E ok \in BOOLEAN : Becomes(Await(t, "settle", ok, "prepare"), n, files)
             [] t.pc = "prepare" ->
                    \E ok \in BOOLEAN : Becomes(Await(t, "prepare", ok, "title"), n, files)
             [] t.pc = "title" ->
                    \E ok \in BOOLEAN :
                       Becomes([t EXCEPT !.pc = "text", !.steps = @ \cup {"title"},
                                         !.result = [@ EXCEPT !.title = IF ok THEN "T" ELSE @]],
                               n, files)
             [] t.pc = "text" ->
                    \E ok \in BOOLEAN, text \in RawTexts :
                       Becomes([t EXCEPT !.pc = "elements", !.steps = @ \cup {"text"},
                                         !.result = [@ EXCEPT !.raw_text =
                                                                 IF ok THEN text ELSE ""]],
                               n, files)
             [] t.pc = "elements" ->
                    Becomes([t EXCEPT !.pc = "links", !.steps = @ \cup {"elements"}], n, files)
             [] t.pc = "links" ->
                    Becomes([t EXCEPT !.pc = "parse", !.steps = @ \cup {"links"}], n, files)
             [] t.pc = "parse" ->
                    \E parsed \in ParseOutcomes, io \in SetOutcomes :
                       LET tail == ScrapeTail(files, t, parsed, io)
                       IN  Becomes(tail.task, n, tail.files)
        /\ UNCHANGED <<now, last, pureVars, registryVars, prev>>

RaceNext == \E i \in RaceTasks : RaceStep(i)

SpecRace == RaceInit /\ [][RaceNext]_vars

\* C23 as stated: when several scrape tasks for the same source, url and
\* extras run concurrently, every change of the cache entry installs the
\* complete record of the task that wrote it, so the entry is always that of
\* the latest write and never a mixture; and once all tasks have finished,
\* each of them having navigated, parsed and merged, the entry is not absent.
C23_Original ==
    /\ [][files' # files =>
             \E i \in RaceTasks :
                /\ task[i].pc = "parse" /\ task'[i].pc = "done"
                /\ files' = WriteFile(files, cache_key(ScrapeSourceId, <<"u">>, <<>>),
                                      JsonFile(to_dict(task'[i].result)))]_vars
    /\ []((\A i \in RaceTasks : task[i].pc = "done" /\ "merge" \in task[i].steps)
          => cache_key(ScrapeSourceId, <<"u">>, <<>>) \in DOMAIN files)

====
